---- MODULE Spec2Model ----
(***************************************************************************)
(* Brazilian Soccer knowledge graph: the loaders of data_loader.py and     *)
(* kaggle_loader.py writing a property graph through Cypher, and the       *)
(* queries of server.py reading it.                                        *)
(*                                                                         *)
(* The graph is a set of nodes and a set of relationships.  A node has a   *)
(* label, the value of its identifier property (key), and a property map.  *)
(* Two nodes with the same label and key are distinguished by `copy`, the  *)
(* database's own node identity: MERGE never makes a second copy, CREATE   *)
(* would.  A property that is absent and a property set to null are the    *)
(* same thing in Cypher: both are None here.                               *)
(***************************************************************************)
EXTENDS Integers, Sequences, FiniteSets, TLC

VARIABLES nodes, rels, team_cache, outcome, calls

vars == <<nodes, rels, team_cache, outcome, calls>>

-----------------------------------------------------------------------------
(* Python None / Cypher null, and a present value.                         *)
None == <<>>
Some(x) == <<x>>
Val(o) == o[1]

(* A datetime.date is a record; date.isoformat() is the string             *)
(* "YYYY-MM-DD", modelled as the sequence of its zero-padded fields.       *)
Date(y, m, d) == [year |-> y, month |-> m, day |-> d]
isoformat(d) == <<d.year, d.month, d.day>>
OptIso(od) == IF od = None THEN None ELSE Some(isoformat(Val(od)))

-----------------------------------------------------------------------------
(* Property names each label / relationship type can carry.                *)
NodeAttrs(label) ==
    CASE label = "Player" -> {"name", "birth_date", "nationality", "position",
                              "jersey_number", "short_name", "positions",
                              "overall_rating"}
      [] label = "Team" -> {"name", "city", "stadium", "founded_year", "colors"}
      [] label = "Match" -> {"date", "home_score", "away_score", "attendance",
                             "round", "home_corners", "away_corners",
                             "home_shots", "away_shots"}
      [] label = "Competition" -> {"name", "season", "type", "tier"}
      [] label = "Stadium" -> {"name", "city", "capacity", "opened_year"}
      [] label = "Coach" -> {"name", "nationality", "birth_date"}

RelAttrs(type) ==
    CASE type = "PLAYS_FOR" -> {"start_date", "end_date", "season"}
      [] type = "SCORED_IN" -> {"minute", "goal_type"}
      [] type \in {"YELLOW_CARD_IN", "RED_CARD_IN"} -> {"minute"}
      [] OTHER -> {}

Ref(n) == [label |-> n.label, key |-> n.key, copy |-> n.copy]

-----------------------------------------------------------------------------
(* Cypher clauses.                                                         *)

(* MATCH (x:Label {id: key}) : every node with that label and key.         *)
MatchNodes(ns, label, key) == {n \in ns : n.label = label /\ n.key = key}

NewNode(ns, label, key) ==
    [label |-> label, key |-> key,
     copy |-> Cardinality(MatchNodes(ns, label, key)) + 1,
     props |-> [a \in NodeAttrs(label) |-> None]]

(* CREATE (x:Label {id: key}) : always a new node.                         *)
CreateNode(ns, label, key) == ns \cup {NewNode(ns, label, key)}

(* A MERGE that behaves as CREATE.                                         *)
MergeNode_as_create(ns, label, key) == CreateNode(ns, label, key)

(* MERGE (x:Label {id: key}) : match, or create when nothing matches.      *)
MergeNode(ns, label, key) ==
    IF MatchNodes(ns, label, key) = {} THEN CreateNode(ns, label, key) ELSE ns

(* A SET that replaces the whole property map (SET x = {...}).             *)
SetProps_replace(props, assign) ==
    [a \in DOMAIN props |-> IF a \in DOMAIN assign THEN assign[a] ELSE None]

(* SET x.a = v, ... on every matched node; SET x.a = null removes a.       *)
SetProps(props, assign) ==
    [a \in DOMAIN props |-> IF a \in DOMAIN assign THEN assign[a] ELSE props[a]]

SetNodeProps(ns, label, key, assign) ==
    {IF n.label = label /\ n.key = key
        THEN [n EXCEPT !.props = SetProps(n.props, assign)]
        ELSE n : n \in ns}

(* MERGE (x:Label {id: key}) SET x.a = v, ...                              *)
MergeSetNode(ns, label, key, assign) ==
    SetNodeProps(MergeNode(ns, label, key), label, key, assign)

(* The relationships of one type between two nodes.                        *)
MatchRels(rs, type, from, to) ==
    {r \in rs : r.type = type /\ r.from = from /\ r.to = to}

NewRel(rs, type, from, to) ==
    [type |-> type, from |-> from, to |-> to,
     copy |-> Cardinality(MatchRels(rs, type, from, to)) + 1,
     props |-> [a \in RelAttrs(type) |-> None]]

CreateRel(rs, type, from, to) == rs \cup {NewRel(rs, type, from, to)}

(* A relationship MERGE that behaves as CREATE.                            *)
MergeRel_as_create(rs, type, from, to) == CreateRel(rs, type, from, to)

(* MERGE (a)-[r:TYPE]->(b) : keyed by type and end points only.            *)
MergeRel(rs, type, from, to) ==
    IF MatchRels(rs, type, from, to) = {} THEN CreateRel(rs, type, from, to)
    ELSE rs

SetRelProps(rs, type, from, to, assign) ==
    {IF r.type = type /\ r.from = from /\ r.to = to
        THEN [r EXCEPT !.props = SetProps(r.props, assign)]
        ELSE r : r \in rs}

(* MERGE (a)-[r:TYPE]->(b) for every row (a, b) of the preceding MATCHes.  *)
RECURSIVE MergeRelRows(_, _, _)
MergeRelRows(rs, type, rows) ==
    IF rows = {} THEN rs
    ELSE LET row == CHOOSE x \in rows : TRUE
         IN MergeRelRows(MergeRel(rs, type, row[1], row[2]), type,
                         rows \ {row})

RECURSIVE SetRelRows(_, _, _, _)
SetRelRows(rs, type, rows, assign) ==
    IF rows = {} THEN rs
    ELSE LET row == CHOOSE x \in rows : TRUE
         IN SetRelRows(SetRelProps(rs, type, row[1], row[2], assign), type,
                       rows \ {row}, assign)


-----------------------------------------------------------------------------
(* The graph as one value, for the operators that compute a query's effect. *)
G == [nodes |-> nodes, rels |-> rels]

(* Rows (a, b) for a relationship MERGE that follows MATCH clauses: one    *)
(* row per combination the MATCHes produced, none when any of them is      *)
(* empty.                                                                  *)
Rows(as, bs, guard) ==
    IF guard THEN {<<Ref(a), Ref(b)>> : a \in as, b \in bs} ELSE {}

-----------------------------------------------------------------------------
(* data_loader.py : DataLoader                                             *)

q_load_player(g, player) ==
    [g EXCEPT !.nodes = MergeSetNode(g.nodes, "Player", player.player_id,
        [name |-> Some(player.name),
         birth_date |-> OptIso(player.birth_date),
         nationality |-> Some(player.nationality),
         position |-> Some(player.position),
         jersey_number |-> player.jersey_number])]

q_load_team(g, team) ==
    [g EXCEPT !.nodes = MergeSetNode(g.nodes, "Team", team.team_id,
        [name |-> Some(team.name),
         city |-> Some(team.city),
         stadium |-> team.stadium,
         founded_year |-> team.founded_year,
         colors |-> team.colors])]

q_load_competition(g, competition) ==
    [g EXCEPT !.nodes = MergeSetNode(g.nodes, "Competition",
        competition.competition_id,
        [name |-> Some(competition.name),
         season |-> Some(competition.season),
         type |-> Some(competition.type),
         tier |-> Some(competition.tier)])]

q_load_stadium(g, stadium) ==
    [g EXCEPT !.nodes = MergeSetNode(g.nodes, "Stadium", stadium.stadium_id,
        [name |-> Some(stadium.name),
         city |-> Some(stadium.city),
         capacity |-> stadium.capacity,
         opened_year |-> stadium.opened_year])]

q_load_coach(g, coach) ==
    [g EXCEPT !.nodes = MergeSetNode(g.nodes, "Coach", coach.coach_id,
        [name |-> Some(coach.name),
         nationality |-> Some(coach.nationality),
         birth_date |-> OptIso(coach.birth_date)])]

(* A load_match that merges PLAYED_HOME right after MATCH home, before    *)
(* the away team and the competition are matched.                          *)
q_load_match_home_first(g, match) ==
    LET ns == MergeSetNode(g.nodes, "Match", match.match_id,
                [date |-> Some(isoformat(match.date)),
                 home_score |-> Some(match.home_score),
                 away_score |-> Some(match.away_score),
                 attendance |-> match.attendance])
        m == MatchNodes(ns, "Match", match.match_id)
        home == MatchNodes(ns, "Team", match.home_team_id)
        away == MatchNodes(ns, "Team", match.away_team_id)
        c == MatchNodes(ns, "Competition", match.competition_id)
        rows == home # {} /\ away # {} /\ c # {}
        r1 == MergeRelRows(g.rels, "PLAYED_HOME", Rows(home, m, TRUE))
        r2 == MergeRelRows(r1, "PLAYED_AWAY", Rows(away, m, rows))
        r3 == MergeRelRows(r2, "PART_OF", Rows(m, c, rows))
    IN [nodes |-> ns, rels |-> r3]

(* MERGE (m) SET ... WITH m MATCH home MATCH away MATCH c MERGE the three  *)
(* relationships.  The MERGE and SET of the Match node are applied before  *)
(* the MATCH clauses are evaluated; when a MATCH finds nothing the query   *)
(* has no rows left, the relationship MERGEs do nothing, and the query     *)
(* still succeeds.                                                         *)
q_load_match(g, match) ==
    LET ns == MergeSetNode(g.nodes, "Match", match.match_id,
                [date |-> Some(isoformat(match.date)),
                 home_score |-> Some(match.home_score),
                 away_score |-> Some(match.away_score),
                 attendance |-> match.attendance])
        m == MatchNodes(ns, "Match", match.match_id)
        home == MatchNodes(ns, "Team", match.home_team_id)
        away == MatchNodes(ns, "Team", match.away_team_id)
        c == MatchNodes(ns, "Competition", match.competition_id)
        rows == home # {} /\ away # {} /\ c # {}
        r1 == MergeRelRows(g.rels, "PLAYED_HOME", Rows(home, m, rows))
        r2 == MergeRelRows(r1, "PLAYED_AWAY", Rows(away, m, rows))
        r3 == MergeRelRows(r2, "PART_OF", Rows(m, c, rows))
    IN [nodes |-> ns, rels |-> r3]

(* A contract MERGE whose pattern also carries the start date:             *)
(* MERGE (p)-[r:PLAYS_FOR {start_date: $start_date}]->(t) SET r.end_date.  *)
q_load_player_contract_by_start(g, contract) ==
    LET p == MatchNodes(g.nodes, "Player", contract.player_id)
        t == MatchNodes(g.nodes, "Team", contract.team_id)
        start == Some(isoformat(contract.start_date))
        missing == {row \in Rows(p, t, TRUE) :
                      \A r \in MatchRels(g.rels, "PLAYS_FOR", row[1], row[2]) :
                          r.props["start_date"] # start}
        made == {[NewRel(g.rels, "PLAYS_FOR", row[1], row[2])
                    EXCEPT !.props["start_date"] = start] : row \in missing}
    IN [g EXCEPT !.rels =
          {IF r.type = "PLAYS_FOR" /\ <<r.from, r.to>> \in Rows(p, t, TRUE)
              /\ r.props["start_date"] = start
              THEN [r EXCEPT !.props["end_date"] = OptIso(contract.end_date)]
              ELSE r : r \in g.rels \cup made}]

(* MATCH p MATCH t MERGE (p)-[r:PLAYS_FOR]->(t) SET r.start_date, end_date *)
q_load_player_contract(g, contract) ==
    LET p == MatchNodes(g.nodes, "Player", contract.player_id)
        t == MatchNodes(g.nodes, "Team", contract.team_id)
        rows == Rows(p, t, TRUE)
        r1 == MergeRelRows(g.rels, "PLAYS_FOR", rows)
    IN [g EXCEPT !.rels = SetRelRows(r1, "PLAYS_FOR", rows,
            [start_date |-> Some(isoformat(contract.start_date)),
             end_date |-> OptIso(contract.end_date)])]

(* MATCH p MATCH m MERGE (p)-[r:SCORED_IN]->(m) SET r.minute, r.goal_type  *)
q_load_goal(g, goal) ==
    LET p == MatchNodes(g.nodes, "Player", goal.player_id)
        m == MatchNodes(g.nodes, "Match", goal.match_id)
        rows == Rows(p, m, TRUE)
        r1 == MergeRelRows(g.rels, "SCORED_IN", rows)
    IN [g EXCEPT !.rels = SetRelRows(r1, "SCORED_IN", rows,
            [minute |-> Some(goal.minute),
             goal_type |-> Some(goal.goal_type)])]

q_load_card(g, card) ==
    LET rel_type == IF card.card_type = "yellow" THEN "YELLOW_CARD_IN"
                    ELSE "RED_CARD_IN"
        p == MatchNodes(g.nodes, "Player", card.player_id)
        m == MatchNodes(g.nodes, "Match", card.match_id)
        rows == Rows(p, m, TRUE)
        r1 == MergeRelRows(g.rels, rel_type, rows)
    IN [g EXCEPT !.rels = SetRelRows(r1, rel_type, rows,
            [minute |-> Some(card.minute)])]

(* database.py : execute_write runs the query in its own session and       *)
(* returns None; a query that matched nothing is not an error.             *)
execute_write(g) ==
    /\ nodes' = g.nodes
    /\ rels' = g.rels
    /\ outcome' = [tool |-> "loader", status |-> "returned"]

(* A delete without DETACH: it fails, and deletes nothing, as soon as a     *)
(* node has a relationship.                                                *)
clear_database_without_detach ==
    /\ nodes' = IF rels = {} THEN {} ELSE nodes
    /\ rels' = rels
    /\ outcome' = [tool |-> "clear_database", status |-> "returned"]
    /\ UNCHANGED <<team_cache, calls>>

(* execute_write("MATCH (n) DETACH DELETE n"): one statement, one          *)
(* transaction, that removes every node together with its relationships.   *)
clear_database ==
    /\ nodes' = {}
    /\ rels' = {}
    /\ outcome' = [tool |-> "clear_database", status |-> "returned"]
    /\ UNCHANGED <<team_cache, calls>>

load_player(player) ==
    execute_write(q_load_player(G, player)) /\ UNCHANGED <<team_cache, calls>>

load_team(team) ==
    execute_write(q_load_team(G, team)) /\ UNCHANGED <<team_cache, calls>>

load_competition(competition) ==
    execute_write(q_load_competition(G, competition)) /\ UNCHANGED <<team_cache, calls>>

load_stadium(stadium) ==
    execute_write(q_load_stadium(G, stadium)) /\ UNCHANGED <<team_cache, calls>>

load_coach(coach) ==
    execute_write(q_load_coach(G, coach)) /\ UNCHANGED <<team_cache, calls>>

load_match(match) ==
    execute_write(q_load_match(G, match)) /\ UNCHANGED <<team_cache, calls>>

load_player_contract(contract) ==
    execute_write(q_load_player_contract(G, contract)) /\ UNCHANGED <<team_cache, calls>>

load_goal(goal) ==
    execute_write(q_load_goal(G, goal)) /\ UNCHANGED <<team_cache, calls>>

load_card(card) ==
    execute_write(q_load_card(G, card)) /\ UNCHANGED <<team_cache, calls>>

-----------------------------------------------------------------------------
(* kaggle_loader.py                                                        *)

(* The model keeps NumKaggleTeams entries of BRAZILIAN_TEAMS, in the       *)
(* table's order: key, csv_name, name, city, stadium, founded, colors.     *)
NumKaggleTeams == 2

BRAZILIAN_TEAMS_ALL ==
    << [key |-> "Flamengo", csv_name |-> "Flamengo-RJ", name |-> "Flamengo",
        city |-> "Rio de Janeiro", stadium |-> "Maracana", founded |-> 1895,
        colors |-> "Red and Black", upper |-> "FLAMENGO"],
       [key |-> "Fluminense", csv_name |-> "Fluminense-RJ",
        name |-> "Fluminense", city |-> "Rio de Janeiro",
        stadium |-> "Maracana", founded |-> 1902,
        colors |-> "Maroon, Green and White", upper |-> "FLUMINENSE"],
       [key |-> "Corinthians", csv_name |-> "Corinthians-SP",
        name |-> "Corinthians", city |-> "Sao Paulo",
        stadium |-> "Neo Quimica Arena", founded |-> 1910,
        colors |-> "Black and White", upper |-> "CORINTHIANS"],
       [key |-> "Palmeiras", csv_name |-> "Palmeiras-SP",
        name |-> "Palmeiras", city |-> "Sao Paulo",
        stadium |-> "Allianz Parque", founded |-> 1914,
        colors |-> "Green and White", upper |-> "PALMEIRAS"] >>

BRAZILIAN_TEAMS ==
    SubSeq(BRAZILIAN_TEAMS_ALL, 1,
           IF NumKaggleTeams < Len(BRAZILIAN_TEAMS_ALL) THEN NumKaggleTeams
           ELSE Len(BRAZILIAN_TEAMS_ALL))

TeamEntries == {BRAZILIAN_TEAMS[i] : i \in 1..Len(BRAZILIAN_TEAMS)}

(* normalize_team_name on the names the model feeds it: a name equal to a  *)
(* key or a csv_name gives that key (the direct match); the other names    *)
(* the model uses match no key in any of the later passes and give None.   *)
normalize_team_name(name) ==
    LET hit == {e \in TeamEntries : name = e.csv_name \/ name = e.key}
    IN IF hit = {} THEN None ELSE Some((CHOOSE e \in hit : TRUE).key)

(* get_team_id: "T_" + the normalized key in upper case, as a token pair.  *)
get_team_id(team_name) ==
    LET normalized == normalize_team_name(team_name)
    IN IF normalized # None
       THEN <<"T", (CHOOSE e \in TeamEntries : e.key = Val(normalized)).upper>>
       ELSE <<"T", team_name>>

(* dict assignment and dict.get on team_cache, a set of (key, value).      *)
CachePut(cache, k, v) == {p \in cache : p[1] # k} \cup {<<k, v>>}

CacheGet(cache, k) ==
    LET hit == {p \in cache : p[1] = k}
    IN IF hit = {} THEN None ELSE Some((CHOOSE p \in hit : TRUE)[2])

(* One iteration of _load_teams: three cache entries and the Team upsert.  *)
load_teams_step(st, e) ==
    LET team_id == get_team_id(e.key)
    IN [cache |-> CachePut(CachePut(CachePut(st.cache, e.key, team_id),
                                    e.csv_name, team_id), e.name, team_id),
        g |-> [st.g EXCEPT !.nodes = MergeSetNode(st.g.nodes, "Team", team_id,
                 [name |-> Some(e.name),
                  city |-> Some(e.city),
                  stadium |-> Some(e.stadium),
                  founded_year |-> Some(e.founded),
                  colors |-> Some(e.colors)])]]

RECURSIVE load_teams_loop(_, _)
load_teams_loop(st, i) ==
    IF i > Len(BRAZILIAN_TEAMS) THEN st
    ELSE load_teams_loop(load_teams_step(st, BRAZILIAN_TEAMS[i]), i + 1)

_load_teams ==
    LET st == load_teams_loop([cache |-> team_cache, g |-> G], 1)
    IN /\ execute_write(st.g)
       /\ team_cache' = st.cache
       /\ UNCHANGED calls

(* _load_competitions: three competitions, one node per season of          *)
(* range(FirstSeason, FirstSeason + NumSeasons).                           *)
FirstSeason == 2012
NumSeasons == 2
Seasons == FirstSeason .. (FirstSeason + NumSeasons - 1)

competitions ==
    << [comp_id |-> "BRASILEIRAO", name |-> "Campeonato Brasileiro Serie A",
        comp_type |-> "league"],
       [comp_id |-> "COPA_BRASIL", name |-> "Copa do Brasil",
        comp_type |-> "cup"],
       [comp_id |-> "LIBERTADORES", name |-> "Copa Libertadores",
        comp_type |-> "cup"] >>

q_load_competitions(g, c, year) ==
    [g EXCEPT !.nodes = MergeSetNode(g.nodes, "Competition",
        <<c.comp_id, year>>,
        [name |-> Some(c.name),
         season |-> Some(ToString(year)),
         type |-> Some(c.comp_type),
         tier |-> Some(1)])]

RECURSIVE load_competitions_loop(_, _, _)
load_competitions_loop(g, i, year) ==
    IF i > Len(competitions) THEN g
    ELSE IF year \notin Seasons
         THEN load_competitions_loop(g, i + 1, FirstSeason)
         ELSE load_competitions_loop(
                  q_load_competitions(g, competitions[i], year), i, year + 1)

_load_competitions ==
    /\ execute_write(load_competitions_loop(G, 1, FirstSeason))
    /\ UNCHANGED <<team_cache, calls>>

(* pd.to_datetime(text).date() on an ISO date text.                        *)
to_date(text) == Date(text[1], text[2], text[3])

(* int(x) if pd.notna(x) else 0                                            *)
int_or_zero(x) == IF x # None THEN Val(x) ELSE 0

(* One row of Brasileirao_Matches.csv.  Rows whose team is not recognised  *)
(* or not cached are skipped; int(NaN) for the season raises ValueError    *)
(* and the row is skipped.                                                 *)
q_brasileirao_row(g, cache, row) ==
    LET home_team == normalize_team_name(row.home_team)
        away_team == normalize_team_name(row.away_team)
    IN IF home_team = None \/ away_team = None THEN g
       ELSE
       LET home_id == CacheGet(cache, Val(home_team))
           away_id == CacheGet(cache, Val(away_team))
       IN IF home_id = None \/ away_id = None THEN g
          ELSE IF row.season = None THEN g
          ELSE
          LET match_date == to_date(row.datetime)
              season == Val(row.season)
              match_round == int_or_zero(row.round)
              home_goals == int_or_zero(row.home_goal)
              away_goals == int_or_zero(row.away_goal)
              match_id == <<"BR", season, match_round, Val(home_team),
                            Val(away_team)>>
              competition_id == <<"BRASILEIRAO", season>>
              ns == MergeSetNode(g.nodes, "Match", match_id,
                      [date |-> Some(isoformat(match_date)),
                       home_score |-> Some(home_goals),
                       away_score |-> Some(away_goals),
                       round |-> Some(match_round)])
              m == MatchNodes(ns, "Match", match_id)
              home == MatchNodes(ns, "Team", Val(home_id))
              away == MatchNodes(ns, "Team", Val(away_id))
              c == MatchNodes(ns, "Competition", competition_id)
              rows == home # {} /\ away # {} /\ c # {}
              r1 == MergeRelRows(g.rels, "PLAYED_HOME", Rows(home, m, rows))
              r2 == MergeRelRows(r1, "PLAYED_AWAY", Rows(away, m, rows))
              r3 == MergeRelRows(r2, "PART_OF", Rows(m, c, rows))
          IN [nodes |-> ns, rels |-> r3]

RECURSIVE brasileirao_loop(_, _, _, _)
brasileirao_loop(g, cache, csv, i) ==
    IF i > Len(csv) THEN g
    ELSE brasileirao_loop(q_brasileirao_row(g, cache, csv[i]), cache, csv,
                          i + 1)

_load_brasileirao_matches(csv) ==
    /\ execute_write(brasileirao_loop(G, team_cache, csv, 1))
    /\ UNCHANGED <<team_cache, calls>>

(* One row of BR-Football-Dataset.csv.  The competition is an OPTIONAL     *)
(* MATCH: the team relationships are merged also when it is missing.       *)
comp_prefix_of(tournament) ==
    IF tournament = "Copa do Brasil" THEN "COPA_BRASIL"
    ELSE IF tournament = "Libertadores" THEN "LIBERTADORES"
    ELSE "BRASILEIRAO"

q_br_football_row(g, cache, row) ==
    LET home_team == normalize_team_name(row.home)
        away_team == normalize_team_name(row.away)
    IN IF home_team = None \/ away_team = None THEN g
       ELSE
       LET home_id == CacheGet(cache, Val(home_team))
           away_id == CacheGet(cache, Val(away_team))
       IN IF home_id = None \/ away_id = None THEN g
          ELSE
          LET match_date == to_date(row.date)
              home_goals == int_or_zero(row.home_goal)
              away_goals == int_or_zero(row.away_goal)
              comp_prefix == comp_prefix_of(row.tournament)
              season == match_date.year
              match_id == <<"BRF", isoformat(match_date), Val(home_team),
                            Val(away_team)>>
              competition_id == <<comp_prefix, season>>
              ns == MergeSetNode(g.nodes, "Match", match_id,
                      [date |-> Some(isoformat(match_date)),
                       home_score |-> Some(home_goals),
                       away_score |-> Some(away_goals),
                       home_corners |-> row.home_corner,
                       away_corners |-> row.away_corner,
                       home_shots |-> row.home_shots,
                       away_shots |-> row.away_shots])
              m == MatchNodes(ns, "Match", match_id)
              home == MatchNodes(ns, "Team", Val(home_id))
              away == MatchNodes(ns, "Team", Val(away_id))
              c == MatchNodes(ns, "Competition", competition_id)
              rows == home # {} /\ away # {}
              r1 == MergeRelRows(g.rels, "PLAYED_HOME", Rows(home, m, rows))
              r2 == MergeRelRows(r1, "PLAYED_AWAY", Rows(away, m, rows))
              r3 == MergeRelRows(r2, "PART_OF", Rows(m, c, rows))
          IN [nodes |-> ns, rels |-> r3]

RECURSIVE br_football_loop(_, _, _, _)
br_football_loop(g, cache, csv, i) ==
    IF i > Len(csv) THEN g
    ELSE br_football_loop(q_br_football_row(g, cache, csv[i]), cache, csv,
                          i + 1)

_load_br_football_matches(csv) ==
    /\ execute_write(br_football_loop(G, team_cache, csv, 1))
    /\ UNCHANGED <<team_cache, calls>>

(* _load_players: rows of the players_YY.csv files, most recent file       *)
(* first; each row carries the year of its file.  A player already seen    *)
(* in this call is skipped.                                                *)
brazilian_clubs(club_name) ==
    LET hit == {e \in TeamEntries : e.name = club_name}
    IN IF hit = {} THEN None ELSE Some((CHOOSE e \in hit : TRUE).key)

q_players_row(st, cache, row) ==
    LET team_key == brazilian_clubs(row.club_name)
    IN IF team_key = None THEN st
       ELSE
       LET team_id == CacheGet(cache, Val(team_key))
           player_id == <<"P", row.sofifa_id>>
       IN IF team_id = None THEN st
          ELSE IF player_id \in st.seen_players THEN st
          ELSE
          LET position == IF row.player_positions # <<>>
                          THEN Head(row.player_positions) ELSE "Unknown"
              ns == MergeSetNode(st.g.nodes, "Player", player_id,
                      [name |-> Some(row.long_name),
                       short_name |-> Some(row.short_name),
                       birth_date |-> IF row.dob # None
                                      THEN Some(isoformat(to_date(Val(row.dob))))
                                      ELSE None,
                       nationality |-> Some(row.nationality_name),
                       position |-> Some(position),
                       positions |-> Some(row.player_positions),
                       overall_rating |-> row.overall,
                       jersey_number |-> row.club_jersey_number])
              p == MatchNodes(ns, "Player", player_id)
              t == MatchNodes(ns, "Team", Val(team_id))
              rows == Rows(p, t, TRUE)
              r1 == MergeRelRows(st.g.rels, "PLAYS_FOR", rows)
              r2 == SetRelRows(r1, "PLAYS_FOR", rows,
                               [season |-> Some(ToString(row.year))])
          IN [g |-> [nodes |-> ns, rels |-> r2],
              seen_players |-> st.seen_players \cup {player_id}]

RECURSIVE players_loop(_, _, _, _)
players_loop(st, cache, csv, i) ==
    IF i > Len(csv) THEN st
    ELSE players_loop(q_players_row(st, cache, csv[i]), cache, csv, i + 1)

_load_players(csv) ==
    /\ execute_write(players_loop([g |-> G, seen_players |-> {}],
                                  team_cache, csv, 1).g)
    /\ UNCHANGED <<team_cache, calls>>

(* KaggleDataLoader.__init__ : a new loader starts with an empty cache.    *)
KaggleDataLoader ==
    /\ team_cache' = {}
    /\ UNCHANGED <<nodes, rels, outcome, calls>>

-----------------------------------------------------------------------------
(* Records the loaders are called with.                                    *)

Player(player_id, name, birth_date, nationality, position, jersey_number) ==
    [player_id |-> player_id, name |-> name, birth_date |-> birth_date,
     nationality |-> nationality, position |-> position,
     jersey_number |-> jersey_number]

Team(team_id, name, city, stadium, founded_year, colors) ==
    [team_id |-> team_id, name |-> name, city |-> city, stadium |-> stadium,
     founded_year |-> founded_year, colors |-> colors]

Match(match_id, date, home_team_id, away_team_id, home_score, away_score, competition_id, attendance) ==
    [match_id |-> match_id, date |-> date, home_team_id |-> home_team_id,
     away_team_id |-> away_team_id, home_score |-> home_score,
     away_score |-> away_score, competition_id |-> competition_id,
     attendance |-> attendance]

Competition(competition_id, name, season, type, tier) ==
    [competition_id |-> competition_id, name |-> name, season |-> season,
     type |-> type, tier |-> tier]

Stadium(stadium_id, name, city, capacity, opened_year) ==
    [stadium_id |-> stadium_id, name |-> name, city |-> city,
     capacity |-> capacity, opened_year |-> opened_year]

Coach(coach_id, name, nationality, birth_date) ==
    [coach_id |-> coach_id, name |-> name, nationality |-> nationality,
     birth_date |-> birth_date]

PlayerContract(player_id, team_id, start_date, end_date) ==
    [player_id |-> player_id, team_id |-> team_id, start_date |-> start_date,
     end_date |-> end_date]

Goal(player_id, match_id, minute, goal_type) ==
    [player_id |-> player_id, match_id |-> match_id, minute |-> minute,
     goal_type |-> goal_type]

Card(player_id, match_id, minute, card_type) ==
    [player_id |-> player_id, match_id |-> match_id, minute |-> minute,
     card_type |-> card_type]

(* Identifiers are texts; a text built by an f-string is the sequence of   *)
(* its pieces, a plain identifier is a single piece.                       *)
Id(text) == <<text>>

T001 == Team(Id("T001"), "Flamengo", "Rio de Janeiro", Some("Maracana"),
             Some(1895), Some("Red and Black"))
T001_bare == Team(Id("T001"), "Flamengo", "Rio de Janeiro", None, None, None)
T002 == Team(Id("T002"), "Fluminense", "Rio de Janeiro", Some("Maracana"),
             Some(1902), Some("Maroon, Green and White"))

C001 == Competition(Id("C001"), "Campeonato Brasileiro Serie A", "2023",
                    "league", 1)
C002 == Competition(Id("C002"), "Campeonato Brasileiro Serie A", "2022",
                    "league", 1)

S001 == Stadium(Id("S001"), "Maracana", "Rio de Janeiro", Some(78838),
                Some(1950))
CO001 == Coach(Id("CO001"), "Tite", "Brazilian", Some(Date(1961, 5, 25)))

P001 == Player(Id("P001"), "Gabriel Barbosa (Gabigol)",
               Some(Date(1996, 8, 30)), "Brazilian", "Forward", Some(10))
P001_bare == Player(Id("P001"), "Gabriel Barbosa", None, "Brazilian",
                    "Forward", None)
(* The identifier the Kaggle loader gives sofifa_id 1.                     *)
P_1 == Player(<<"P", 1>>, "Pedro", Some(Date(1997, 6, 20)), "Brazilian",
              "Forward", None)

M001 == Match(Id("M001"), Date(2023, 4, 16), Id("T001"), Id("T002"), 2, 1,
              Id("C001"), Some(65000))
(* M001 loaded again with the sides swapped, in another competition.       *)
M001_swapped == Match(Id("M001"), Date(2022, 8, 20), Id("T002"), Id("T001"),
                      0, 3, Id("C002"), None)
M001_no_away == Match(Id("M001"), Date(2023, 4, 16), Id("T001"), Id("T999"),
                      1, 1, Id("C001"), Some(65000))
M001_no_comp == Match(Id("M001"), Date(2023, 4, 16), Id("T001"), Id("T002"),
                      2, 1, Id("C999"), Some(65000))
M002 == Match(Id("M002"), Date(2023, 8, 12), Id("T001"), Id("T002"), 3, 2,
              Id("C001"), Some(70000))
M002_no_home == Match(Id("M002"), Date(2023, 8, 12), Id("T999"), Id("T002"),
                      3, 2, Id("C001"), Some(70000))
(* A Match record carrying the identifier of a Brasileirao CSV match.      *)
M_BR == Match(<<"BR", 2012, 1, "Flamengo", "Fluminense">>, Date(2012, 5, 20),
              <<"T", "FLAMENGO">>, <<"T", "FLUMINENSE">>, 1, 0,
              <<"BRASILEIRAO", 2012>>, Some(30000))

(* CSV rows.                                                               *)
BR_row == [home_team |-> "Flamengo-RJ", away_team |-> "Fluminense-RJ",
           datetime |-> <<2012, 5, 20>>, season |-> Some(2012),
           round |-> Some(1), home_goal |-> Some(2), away_goal |-> Some(1)]
(* A season before the first one _load_competitions creates.               *)
BR_row_2011 == [home_team |-> "Fluminense-RJ", away_team |-> "Flamengo-RJ",
                datetime |-> <<2011, 6, 5>>, season |-> Some(2011),
                round |-> None, home_goal |-> None, away_goal |-> Some(3)]
BR_row_unknown == [home_team |-> "Criciuma-SC", away_team |-> "Flamengo-RJ",
                   datetime |-> <<2012, 7, 1>>, season |-> Some(2012),
                   round |-> Some(2), home_goal |-> Some(0),
                   away_goal |-> Some(0)]
BR_row_nan == [home_team |-> "Flamengo-RJ", away_team |-> "Fluminense-RJ",
               datetime |-> <<2012, 9, 9>>, season |-> None,
               round |-> Some(3), home_goal |-> Some(1), away_goal |-> Some(1)]

BRF_row == [home |-> "Flamengo", away |-> "Fluminense",
            date |-> <<2012, 8, 1>>, tournament |-> "Copa do Brasil",
            home_goal |-> Some(1), away_goal |-> Some(1),
            home_corner |-> Some(5), away_corner |-> None,
            home_shots |-> Some(12), away_shots |-> Some(7)]
BRF_row_2011 == [home |-> "Fluminense", away |-> "Flamengo",
                 date |-> <<2011, 3, 3>>, tournament |-> "Serie A",
                 home_goal |-> Some(0), away_goal |-> None,
                 home_corner |-> None, away_corner |-> Some(4),
                 home_shots |-> None, away_shots |-> None]

FIFA_row == [year |-> 2022, club_name |-> "Flamengo", sofifa_id |-> 1,
             short_name |-> "Pedro", long_name |-> "Pedro Guilherme",
             player_positions |-> <<"ST", "CF">>,
             nationality_name |-> "Brazil", dob |-> Some(<<1997, 6, 20>>),
             overall |-> Some(80), club_jersey_number |-> Some(9)]
(* The same player in an older file, at another club.                      *)
FIFA_row_older == [year |-> 2021, club_name |-> "Fluminense", sofifa_id |-> 1,
                   short_name |-> "Pedro", long_name |-> "Pedro Guilherme",
                   player_positions |-> <<>>,
                   nationality_name |-> "Brazil", dob |-> None,
                   overall |-> None, club_jersey_number |-> None]
FIFA_row_abroad == [year |-> 2022, club_name |-> "Real Madrid", sofifa_id |-> 2,
                    short_name |-> "Vini Jr.", long_name |-> "Vinicius Junior",
                    player_positions |-> <<"LW">>,
                    nationality_name |-> "Brazil", dob |-> None,
                    overall |-> Some(89), club_jersey_number |-> Some(7)]

(* CSV files of at most MaxCsvRows rows.                                   *)
MaxCsvRows == 2

RECURSIVE CsvFiles(_, _)
CsvFiles(rowset, n) ==
    IF n = 0 THEN {<<>>}
    ELSE LET shorter == CsvFiles(rowset, n - 1)
         IN shorter \cup {Append(f, r) : f \in {x \in shorter : Len(x) = n - 1},
                                         r \in rowset}

-----------------------------------------------------------------------------
(* The calls in progress: the analytics tool that is between two of its    *)
(* queries, and the number of writes load_sample_data and load_all have    *)
(* issued so far.                                                          *)
Idle == [op |-> "idle"]
NoCalls == [reader |-> Idle, sample |-> 0, kaggle |-> 0]

(* State after construction: an empty database, no loader cache, no call   *)
(* made yet.                                                               *)
Init ==
    /\ nodes = {}
    /\ rels = {}
    /\ team_cache = {}
    /\ outcome = [tool |-> "none", status |-> "none"]
    /\ calls = NoCalls

(* Node upserts: every loader that writes a node, with records that share  *)
(* identifiers so that a node is written more than once and by more than   *)
(* one loader.                                                             *)
NextNodes ==
    \/ \E player \in {P001, P001_bare, P_1} : load_player(player)
    \/ \E team \in {T001, T001_bare} : load_team(team)
    \/ load_competition(C001)
    \/ load_stadium(S001)
    \/ load_coach(CO001)
    \/ load_match(M_BR)
    \/ _load_teams
    \/ _load_competitions
    \/ \E csv \in CsvFiles({BR_row, BR_row_nan}, MaxCsvRows) :
           _load_brasileirao_matches(csv)
    \/ \E csv \in CsvFiles({FIFA_row, FIFA_row_older}, MaxCsvRows) :
           _load_players(csv)
    \/ clear_database

SpecNodes == Init /\ [][NextNodes]_vars

-----------------------------------------------------------------------------
(* Node upserts (SpecNodes).                                               *)

NodeOf(ns, label, key) == CHOOSE n \in ns : n.label = label /\ n.key = key

HasNode(ns, label, key) == MatchNodes(ns, label, key) # {}

(* C1: after any sequence of node loads there is at most one node per      *)
(* (label, identifier); loading an identifier that already exists updates  *)
(* the node and never adds a second one.                                   *)
C1_OneNodePerIdentifier ==
    \A n1 \in nodes : \A n2 \in nodes :
        (n1.label = n2.label /\ n1.key = n2.key) => n1 = n2

(* The Brasileirao match was written by the Kaggle loader (round) and by   *)
(* DataLoader.load_match (attendance), and it is one node.                 *)
C1_Witness ==
    /\ HasNode(nodes, "Match", M_BR.match_id)
    /\ NodeOf(nodes, "Match", M_BR.match_id).props["round"] # None
    /\ NodeOf(nodes, "Match", M_BR.match_id).props["attendance"] # None

(* The calls that write nodes, each with the label it writes, the          *)
(* attributes its SET clause names, and the graph it leaves.               *)
NodeCalls(g, cache) ==
    {[label |-> "Player",
      named |-> {"name", "birth_date", "nationality", "position",
                 "jersey_number"},
      after |-> q_load_player(g, player)] : player \in {P001, P001_bare, P_1}}
    \cup
    {[label |-> "Team",
      named |-> {"name", "city", "stadium", "founded_year", "colors"},
      after |-> q_load_team(g, team)] : team \in {T001, T001_bare}}
    \cup
    {[label |-> "Competition",
      named |-> {"name", "season", "type", "tier"},
      after |-> q_load_competition(g, C001)],
     [label |-> "Stadium",
      named |-> {"name", "city", "capacity", "opened_year"},
      after |-> q_load_stadium(g, S001)],
     [label |-> "Coach",
      named |-> {"name", "nationality", "birth_date"},
      after |-> q_load_coach(g, CO001)],
     [label |-> "Match",
      named |-> {"date", "home_score", "away_score", "attendance"},
      after |-> q_load_match(g, M_BR)],
     [label |-> "Team",
      named |-> {"name", "city", "stadium", "founded_year", "colors"},
      after |-> load_teams_loop([cache |-> cache, g |-> g], 1).g],
     [label |-> "Competition",
      named |-> {"name", "season", "type", "tier"},
      after |-> load_competitions_loop(g, 1, FirstSeason)]}
    \cup
    {[label |-> "Match",
      named |-> {"date", "home_score", "away_score", "round"},
      after |-> brasileirao_loop(g, cache, csv, 1)] :
        csv \in CsvFiles({BR_row}, MaxCsvRows)}
    \cup
    {[label |-> "Player",
      named |-> {"name", "short_name", "birth_date", "nationality",
                 "position", "positions", "overall_rating", "jersey_number"},
      after |-> players_loop([g |-> g, seen_players |-> {}], cache, csv,
                             1).g] :
        csv \in CsvFiles({FIFA_row, FIFA_row_older}, MaxCsvRows)}

(* C2: a node upsert leaves every attribute it does not name as it was:    *)
(* every node is still there after the call, and an attribute of it has    *)
(* changed only if the node has the label the call writes and the call     *)
(* names the attribute.                                                    *)
C2_UpsertKeepsOtherAttributes ==
    \A call \in NodeCalls(G, team_cache) :
        \A n \in nodes :
            \E n2 \in call.after.nodes :
                /\ Ref(n2) = Ref(n)
                /\ \A a \in DOMAIN n.props :
                       n2.props[a] # n.props[a] =>
                           (n.label = call.label /\ a \in call.named)

(* Player P_1 holds short_name, which only the Kaggle loader writes, and   *)
(* the name DataLoader.load_player gave it afterwards.                     *)
C2_Witness ==
    /\ HasNode(nodes, "Player", P_1.player_id)
    /\ NodeOf(nodes, "Player", P_1.player_id).props["short_name"]
           = Some(FIFA_row.short_name)
    /\ NodeOf(nodes, "Player", P_1.player_id).props["name"] = Some(P_1.name)

(* C3: a node upsert is idempotent: from every reachable graph, making     *)
(* the same load call twice in a row gives the graph reached after         *)
(* making it once.                                                         *)
C3_UpsertIdempotent ==
    /\ \A player \in {P001, P001_bare, P_1} :
           q_load_player(q_load_player(G, player), player)
               = q_load_player(G, player)
    /\ \A team \in {T001, T001_bare} :
           q_load_team(q_load_team(G, team), team) = q_load_team(G, team)
    /\ q_load_competition(q_load_competition(G, C001), C001)
           = q_load_competition(G, C001)
    /\ q_load_stadium(q_load_stadium(G, S001), S001) = q_load_stadium(G, S001)
    /\ q_load_coach(q_load_coach(G, CO001), CO001) = q_load_coach(G, CO001)
    /\ q_load_match(q_load_match(G, M_BR), M_BR) = q_load_match(G, M_BR)

(* load_match(M_BR) has been applied with its teams and competition        *)
(* present: applying it again is the case the claim is about.              *)
C3_Witness ==
    /\ q_load_match(G, M_BR) = G
    /\ \E r \in rels : r.type = "PART_OF" /\ r.from.key = M_BR.match_id
    /\ HasNode(nodes, "Player", P001.player_id)
    /\ q_load_player(G, P001) = G

-----------------------------------------------------------------------------
(* Relationship upserts (SpecEdges).                                       *)

K1 == PlayerContract(Id("P001"), Id("T001"), Date(2019, 1, 1), None)
(* A second stint of the same player at the same team.                     *)
K2 == PlayerContract(Id("P001"), Id("T001"), Date(2017, 1, 1),
                     Some(Date(2023, 12, 31)))
K_no_team == PlayerContract(Id("P001"), Id("T999"), Date(2019, 1, 1), None)
K_no_player == PlayerContract(Id("P999"), Id("T001"), Date(2019, 1, 1), None)
(* A contract for the pair the Kaggle loader links.                        *)
K_kaggle == PlayerContract(<<"P", 1>>, <<"T", "FLAMENGO">>, Date(2020, 1, 1),
                           None)

G1 == Goal(Id("P001"), Id("M001"), 15, "regular")
(* A second goal of the same player in the same match.                     *)
G2 == Goal(Id("P001"), Id("M001"), 50, "penalty")
G_no_match == Goal(Id("P001"), Id("M999"), 10, "regular")
G_no_player == Goal(Id("P999"), Id("M001"), 10, "regular")

Y1 == Card(Id("P001"), Id("M001"), 40, "yellow")
R1 == Card(Id("P001"), Id("M001"), 78, "red")
Y_no_match == Card(Id("P001"), Id("M999"), 5, "yellow")

ContractInputs == {K1, K2, K_no_team, K_no_player, K_kaggle}
GoalInputs == {G1, G2, G_no_match, G_no_player}
CardInputs == {Y1, R1, Y_no_match}

NextEdges ==
    \/ \E contract \in ContractInputs : load_player_contract(contract)
    \/ \E goal \in GoalInputs : load_goal(goal)
    \/ \E card \in CardInputs : load_card(card)
    \/ load_player(P001)
    \/ \E team \in {T001, T002} : load_team(team)
    \/ load_competition(C001)
    \/ load_match(M001)
    \/ _load_teams
    \/ \E csv \in CsvFiles({FIFA_row, FIFA_row_older, FIFA_row_abroad},
                           MaxCsvRows) : _load_players(csv)
    \/ clear_database

SpecEdges == Init /\ [][NextEdges]_vars

RelsBetween(rs, type, from_label, from_key, to_label, to_key) ==
    {r \in rs : /\ r.type = type
                /\ r.from.label = from_label /\ r.from.key = from_key
                /\ r.to.label = to_label /\ r.to.key = to_key}

(* C4: there is at most one PLAYS_FOR relationship per (player, team),     *)
(* and a load_player_contract call for a pair whose nodes exist leaves     *)
(* exactly one, carrying the start_date and end_date of that call.         *)
C4_OnePlaysForPerPair ==
    /\ \A r1 \in rels : \A r2 \in rels :
           (r1.type = "PLAYS_FOR" /\ r2.type = "PLAYS_FOR"
            /\ r1.from = r2.from /\ r1.to = r2.to) => r1 = r2
    /\ \A contract \in ContractInputs :
           (HasNode(nodes, "Player", contract.player_id)
            /\ HasNode(nodes, "Team", contract.team_id)) =>
               LET after == RelsBetween(
                       q_load_player_contract(G, contract).rels, "PLAYS_FOR",
                       "Player", contract.player_id, "Team", contract.team_id)
               IN /\ Cardinality(after) = 1
                  /\ \A r \in after :
                         /\ r.props["start_date"]
                                = Some(isoformat(contract.start_date))
                         /\ r.props["end_date"] = OptIso(contract.end_date)

(* P001 already has its stint K1 at T001, so that loading K2 is a second   *)
(* call for the pair; and the Kaggle pair was written by both loaders.     *)
C4_Witness ==
    /\ \E r \in RelsBetween(rels, "PLAYS_FOR", "Player", K1.player_id,
                            "Team", K1.team_id) :
           r.props["start_date"] = Some(isoformat(K1.start_date))
    /\ \E r \in RelsBetween(rels, "PLAYS_FOR", "Player", K_kaggle.player_id,
                            "Team", K_kaggle.team_id) :
           r.props["season"] # None /\ r.props["start_date"] # None

(* C5: every Goal record loaded for an existing player and match, with a   *)
(* minute no SCORED_IN relationship between them has yet, adds one         *)
(* SCORED_IN relationship, so that k records give k relationships.         *)
C5_EveryGoalAddsScoredIn ==
    [][\A goal \in GoalInputs :
         (/\ load_goal(goal)
          /\ HasNode(nodes, "Player", goal.player_id)
          /\ HasNode(nodes, "Match", goal.match_id)
          /\ \A r \in RelsBetween(rels, "SCORED_IN", "Player", goal.player_id,
                                  "Match", goal.match_id) :
                 r.props["minute"] # Some(goal.minute))
         => Cardinality(RelsBetween(rels', "SCORED_IN", "Player",
                                    goal.player_id, "Match", goal.match_id))
              = Cardinality(RelsBetween(rels, "SCORED_IN", "Player",
                                        goal.player_id, "Match",
                                        goal.match_id)) + 1]_vars

(* C6: a relationship load that names a player, team or match with no      *)
(* node reports a dangling-reference error to its caller.                  *)
C6_DanglingReferenceRejected ==
    [][/\ \A contract \in ContractInputs :
            (/\ load_player_contract(contract)
             /\ \/ ~HasNode(nodes, "Player", contract.player_id)
                \/ ~HasNode(nodes, "Team", contract.team_id))
            => outcome'.status = "DanglingReferenceError"
       /\ \A goal \in GoalInputs :
            (/\ load_goal(goal)
             /\ \/ ~HasNode(nodes, "Player", goal.player_id)
                \/ ~HasNode(nodes, "Match", goal.match_id))
            => outcome'.status = "DanglingReferenceError"
       /\ \A card \in CardInputs :
            (/\ load_card(card)
             /\ \/ ~HasNode(nodes, "Player", card.player_id)
                \/ ~HasNode(nodes, "Match", card.match_id))
            => outcome'.status = "DanglingReferenceError"]_vars

-----------------------------------------------------------------------------
(* Match loading: DataLoader.load_match and the two Kaggle match files,    *)
(* in any order with the team and competition loaders.                     *)
MatchInputs == {M001, M001_swapped, M001_no_away, M001_no_comp}
BrasileiraoRows == {BR_row, BR_row_2011, BR_row_unknown}
BrFootballRows == {BRF_row, BRF_row_2011}

NextMatches ==
    \/ \E match \in MatchInputs : load_match(match)
    \/ \E team \in {T001, T002} : load_team(team)
    \/ \E competition \in {C001, C002} : load_competition(competition)
    \/ KaggleDataLoader
    \/ _load_teams
    \/ _load_competitions
    \/ \E csv \in CsvFiles(BrasileiraoRows, MaxCsvRows) :
          _load_brasileirao_matches(csv)
    \/ \E csv \in CsvFiles(BrFootballRows, MaxCsvRows) :
          _load_br_football_matches(csv)
    \/ clear_database

SpecMatches == Init /\ [][NextMatches]_vars

(* The relationships of one type arriving at / leaving a node.             *)
RelsInto(rs, type, n) == {r \in rs : r.type = type /\ r.to = Ref(n)}
RelsOutOf(rs, type, n) == {r \in rs : r.type = type /\ r.from = Ref(n)}

MatchNodesOf(ns) == {n \in ns : n.label = "Match"}

(* C7: a load_match call whose home team, away team or competition has no  *)
(* node leaves the graph unchanged; so does a one-row Brasileirao file     *)
(* whose row names a competition season with no node.                      *)
C7_FailingLoadMatchAppliesNothing ==
    [][/\ \A match \in MatchInputs :
            (/\ load_match(match)
             /\ \/ ~HasNode(nodes, "Team", match.home_team_id)
                \/ ~HasNode(nodes, "Team", match.away_team_id)
                \/ ~HasNode(nodes, "Competition", match.competition_id))
            => (nodes' = nodes /\ rels' = rels)
       /\ \A row \in {BR_row, BR_row_2011} :
            (/\ _load_brasileirao_matches(<<row>>)
             /\ ~HasNode(nodes, "Competition",
                         <<"BRASILEIRAO", Val(row.season)>>))
            => (nodes' = nodes /\ rels' = rels)]_vars

(* C8: every Match node has a PLAYED_HOME source and a PLAYED_AWAY source. *)
C8_NoOrphanMatches ==
    \A m \in MatchNodesOf(nodes) :
        /\ RelsInto(rels, "PLAYED_HOME", m) # {}
        /\ RelsInto(rels, "PLAYED_AWAY", m) # {}

(* C9: every Match node has at most one PLAYED_HOME source, at most one    *)
(* PLAYED_AWAY source and at most one PART_OF target.                      *)
C9_AtMostOneEdgeOfEachKind ==
    \A m \in MatchNodesOf(nodes) :
        /\ Cardinality(RelsInto(rels, "PLAYED_HOME", m)) <= 1
        /\ Cardinality(RelsInto(rels, "PLAYED_AWAY", m)) <= 1
        /\ Cardinality(RelsOutOf(rels, "PART_OF", m)) <= 1

-----------------------------------------------------------------------------
(* server.py : the read tools.  A tool's value is the set of results it    *)
(* can return: Cypher leaves the order of rows with equal sort keys, the   *)
(* rows a LIMIT keeps among them and the first element of a collect()      *)
(* unspecified.                                                            *)

(* Texts that are searched are spelled out; any other text is one symbol.  *)
Chars(text) ==
    CASE text = "Flamengo" -> <<"F", "l", "a", "m", "e", "n", "g", "o">>
      [] text = "Fluminense" ->
            <<"F", "l", "u", "m", "i", "n", "e", "n", "s", "e">>
      [] text = "Campeonato Brasileiro Serie A" ->
            <<"C", "a", "m", "p", "e", "o", "n", "a", "t", "o", " ",
              "B", "r", "a", "s", "i", "l", "e", "i", "r", "o", " ",
              "S", "e", "r", "i", "e", " ", "A">>
      [] text = "FLU" -> <<"F", "L", "U">>
      [] text = "serie a" -> <<"s", "e", "r", "i", "e", " ", "a">>
      [] text = "santos" -> <<"s", "a", "n", "t", "o", "s">>
      [] text = "Gabriel Barbosa (Gabigol)" ->
            <<"G", "a", "b", "r", "i", "e", "l", " ", "B", "a",
              "r", "b", "o", "s", "a", " ", "(", "G", "a", "b",
              "i", "g", "o", "l", ")">>
      [] text = "Arrascaeta" ->
            <<"A", "r", "r", "a", "s", "c", "a", "e", "t", "a">>
      [] text = "Everton Ribeiro" ->
            <<"E", "v", "e", "r", "t", "o", "n", " ", "R", "i",
              "b", "e", "i", "r", "o">>
      [] text = "Pedro" ->
            <<"P", "e", "d", "r", "o">>
      [] text = "Pedro Guilherme" ->
            <<"P", "e", "d", "r", "o", " ", "G", "u", "i", "l",
              "h", "e", "r", "m", "e">>
      [] text = "Forward" ->
            <<"F", "o", "r", "w", "a", "r", "d">>
      [] text = "Midfielder" ->
            <<"M", "i", "d", "f", "i", "e", "l", "d", "e", "r">>
      [] text = "ST" ->
            <<"S", "T">>
      [] text = "Unknown" ->
            <<"U", "n", "k", "n", "o", "w", "n">>
      [] text = "GAB" -> <<"G", "A", "B">>
      [] text = "PEDRO" -> <<"P", "E", "D", "R", "O">>
      [] text = "forward" -> <<"f", "o", "r", "w", "a", "r", "d">>
      [] text = "" -> <<>>
      [] OTHER -> <<text>>

UpperCase == <<"A", "B", "C", "D", "E", "F", "G", "H", "I", "J", "K", "L", "M",
               "N", "O", "P", "Q", "R", "S", "T", "U", "V", "W", "X", "Y", "Z">>
LowerCase == <<"a", "b", "c", "d", "e", "f", "g", "h", "i", "j", "k", "l", "m",
               "n", "o", "p", "q", "r", "s", "t", "u", "v", "w", "x", "y", "z">>

(* Cypher toLower() and CONTAINS.                                          *)
toLower(text) ==
    LET cs == Chars(text)
    IN [i \in 1..Len(cs) |->
          IF \E k \in 1..26 : UpperCase[k] = cs[i]
             THEN LowerCase[CHOOSE k \in 1..26 : UpperCase[k] = cs[i]]
             ELSE cs[i]]

CONTAINS(cs, part) ==
    \E i \in 1..(Len(cs) - Len(part) + 1) :
        SubSeq(cs, i, i + Len(part) - 1) = part

(* The node a relationship end refers to.                                  *)
NodeAt(ns, ref) == CHOOSE n \in ns : Ref(n) = ref

RelsOfType(g, type, from_label, to_label) ==
    {r \in g.rels : /\ r.type = type
                    /\ r.from.label = from_label
                    /\ r.to.label = to_label}

(* sum() over the rows of a query; f maps each row to its term.            *)
RECURSIVE Sum(_)
Sum(f) ==
    IF DOMAIN f = {} THEN 0
    ELSE LET x == CHOOSE x \in DOMAIN f : TRUE
         IN f[x] + Sum([y \in DOMAIN f \ {x} |-> f[y]])

RECURSIVE Perms(_)
Perms(S) ==
    IF S = {} THEN {<<>>}
    ELSE UNION {{<<x>> \o rest : rest \in Perms(S \ {x})} : x \in S}

(* An ORDER BY that leaves the rows in any order.                          *)
OrderByDesc_unordered(key) == Perms(DOMAIN key)

(* ORDER BY key DESC : every order of the rows in which no row has a      *)
(* smaller key than its successor; key maps each row to a number.         *)
OrderByDesc(key) ==
    {q \in Perms(DOMAIN key) :
        \A i \in 1..(Len(q) - 1) : key[q[i]] >= key[q[i + 1]]}

(* LIMIT n, python list[:n].                                               *)
Limit(q, n) == SubSeq(q, 1, IF Len(q) < n THEN Len(q) ELSE n)

(* Order of two ISO date texts.                                            *)
IsoLE(a, b) ==
    \/ a[1] < b[1]
    \/ a[1] = b[1] /\ a[2] < b[2]
    \/ a[1] = b[1] /\ a[2] = b[2] /\ a[3] <= b[3]

(* The rank of an optional ISO date text in ORDER BY: texts of the form    *)
(* YYYY-MM-DD sort as the number YYYYMMDD, and Cypher sorts null before    *)
(* every value in descending order.                                        *)
DateKey(od) ==
    IF od = None THEN 100000000
    ELSE Val(od)[1] * 10000 + Val(od)[2] * 100 + Val(od)[3]

(* CASE WHEN a > b THEN 1 ELSE 0 END on optional numbers: a comparison     *)
(* with null is not true.                                                  *)
Gt(a, b) == a # None /\ b # None /\ Val(a) > Val(b)
Eq(a, b) == a # None /\ b # None /\ Val(a) = Val(b)
OrZero(a) == IF a = None THEN 0 ELSE Val(a)
Bit(b) == IF b THEN 1 ELSE 0

(* get_team_stats: home_query / away_query.  A row is a PLAYED_HOME (or    *)
(* PLAYED_AWAY) relationship of the team, joined with a PART_OF            *)
(* relationship to a competition of the season when a season is given.     *)
side_rows(g, team_id, season, type) ==
    LET played == {r \in RelsOfType(g, type, "Team", "Match") :
                     r.from.key = team_id}
    IN IF season = None THEN {<<r, None>> : r \in played}
       ELSE {row \in played \X RelsOfType(g, "PART_OF", "Match",
                                          "Competition") :
               /\ row[2].from = row[1].to
               /\ NodeAt(g.nodes, row[2].to).props.season = season}

side_stats(g, rows, own, other) ==
    LET m(row) == NodeAt(g.nodes, row[1].to).props
    IN [matches |-> Cardinality(rows),
        wins |-> Sum([row \in rows |-> Bit(Gt(m(row)[own], m(row)[other]))]),
        draws |-> Sum([row \in rows |-> Bit(Eq(m(row)[own], m(row)[other]))]),
        losses |-> Sum([row \in rows |-> Bit(Gt(m(row)[other], m(row)[own]))]),
        goals_for |-> Sum([row \in rows |-> OrZero(m(row)[own])]),
        goals_against |-> Sum([row \in rows |-> OrZero(m(row)[other])])]

q_get_team_stats(g, team_id, season) ==
    LET team_result == MatchNodes(g.nodes, "Team", team_id)
        home == side_stats(g, side_rows(g, team_id, season, "PLAYED_HOME"),
                           "home_score", "away_score")
        away == side_stats(g, side_rows(g, team_id, season, "PLAYED_AWAY"),
                           "away_score", "home_score")
    IN IF team_result = {}
       THEN {[tool |-> "get_team_stats", status |-> "not_found"]}
       ELSE {[tool |-> "get_team_stats", status |-> "ok",
              team_name |-> t.props.name,
              total_matches |-> home.matches + away.matches,
              total_wins |-> home.wins + away.wins,
              total_draws |-> home.draws + away.draws,
              total_losses |-> home.losses + away.losses,
              goals_for |-> home.goals_for + away.goals_for,
              goals_against |-> home.goals_against + away.goals_against]
             : t \in team_result}

(* Rows of MATCH (home)-[:PLAYED_HOME]->(m)<-[:PLAYED_AWAY]-(away).        *)
fixture_rows(g) ==
    {row \in RelsOfType(g, "PLAYED_HOME", "Team", "Match")
             \X RelsOfType(g, "PLAYED_AWAY", "Team", "Match") :
        row[1].to = row[2].to}

(* A CONTAINS that compares the texts as they are written.                 *)
name_contains_same_case(name, term) ==
    name # None /\ CONTAINS(Chars(Val(name)), Chars(Val(term)))

(* search_matches.  An empty or missing filter adds no condition.          *)
name_contains(name, term) ==
    name # None /\ CONTAINS(toLower(Val(name)), toLower(Val(term)))

SearchLimit == 20

q_search_matches(g, team, date_from, date_to, competition) ==
    LET node(ref) == NodeAt(g.nodes, ref).props
        rows == {row \in fixture_rows(g)
                         \X RelsOfType(g, "PART_OF", "Match", "Competition") :
                   /\ row[2].from = row[1][1].to
                   /\ team # None =>
                        \/ name_contains(node(row[1][1].from).name, team)
                        \/ name_contains(node(row[1][2].from).name, team)
                   /\ date_from # None =>
                        /\ node(row[2].from).date # None
                        /\ IsoLE(Val(date_from), Val(node(row[2].from).date))
                   /\ date_to # None =>
                        /\ node(row[2].from).date # None
                        /\ IsoLE(Val(node(row[2].from).date), Val(date_to))
                   /\ competition # None =>
                        name_contains(node(row[2].to).name, competition)}
        by_date == [row \in rows |-> DateKey(node(row[2].from).date)]
        returned(row) ==
            [match_id |-> row[2].from.key,
             date |-> node(row[2].from).date,
             home_score |-> node(row[2].from).home_score,
             away_score |-> node(row[2].from).away_score,
             home_team |-> node(row[1][1].from).name,
             away_team |-> node(row[1][2].from).name,
             competition |-> node(row[2].to).name,
             season |-> node(row[2].to).season]
    IN IF rows = {}
       THEN {[tool |-> "search_matches", status |-> "empty"]}
       ELSE {[tool |-> "search_matches", status |-> "ok",
              matches |-> [i \in 1..Len(Limit(q, SearchLimit)) |->
                             returned(q[i])]]
             : q \in OrderByDesc(by_date)}

(* get_head_to_head.  The statistics loop adds the scores of every row;    *)
(* a null score makes the addition raise TypeError.                        *)
RecentLimit == 5

q_get_head_to_head(g, team1_id, team2_id) ==
    LET node(ref) == NodeAt(g.nodes, ref).props
        teams_result == MatchNodes(g.nodes, "Team", team1_id)
                        \X MatchNodes(g.nodes, "Team", team2_id)
        between(m, a, b) ==
            \E row \in fixture_rows(g) :
                /\ row[1].to = m
                /\ row[1].from = Ref(a)
                /\ row[2].from = Ref(b)
        rows == {row \in teams_result \X fixture_rows(g) :
                   \/ between(row[2][1].to, row[1][1], row[1][2])
                   \/ between(row[2][1].to, row[1][2], row[1][1])}
        by_date == [row \in rows |-> DateKey(node(row[2][1].to).date)]
        home_score(row) == node(row[2][1].to).home_score
        away_score(row) == node(row[2][1].to).away_score
        as_home(row) == row[2][1].from.key = team1_id
        for1(row) == IF as_home(row) THEN home_score(row) ELSE away_score(row)
        for2(row) == IF as_home(row) THEN away_score(row) ELSE home_score(row)
        returned(row) ==
            [date |-> node(row[2][1].to).date,
             home_team |-> node(row[2][1].from).name,
             home_score |-> home_score(row),
             away_score |-> away_score(row),
             away_team |-> node(row[2][2].from).name]
    IN IF teams_result = {}
       THEN {[tool |-> "get_head_to_head", status |-> "not_found"]}
       ELSE IF rows = {}
       THEN {[tool |-> "get_head_to_head", status |-> "empty"]}
       ELSE IF \E row \in rows : home_score(row) = None
                                 \/ away_score(row) = None
       THEN {[tool |-> "get_head_to_head", status |-> "TypeError"]}
       ELSE {[tool |-> "get_head_to_head", status |-> "ok",
              total_matches |-> Cardinality(rows),
              team1_wins |-> Sum([row \in rows |->
                                    Bit(Gt(for1(row), for2(row)))]),
              team2_wins |-> Sum([row \in rows |->
                                    Bit(Gt(for2(row), for1(row)))]),
              draws |-> Sum([row \in rows |-> Bit(Eq(for1(row), for2(row)))]),
              team1_goals |-> Sum([row \in rows |-> Val(for1(row))]),
              team2_goals |-> Sum([row \in rows |-> Val(for2(row))]),
              recent |-> [i \in 1..Len(Limit(q, RecentLimit)) |->
                            returned(q[i])]]
             : q \in OrderByDesc(by_date)}

(* get_competition_top_scorers.  Goals are SCORED_IN relationships into a  *)
(* match with a PART_OF relationship to the competition; LIMIT is applied  *)
(* before the PLAYS_FOR MATCH, which drops a player without a team.        *)
q_get_competition_top_scorers(g, competition_id, season, limit) ==
    LET node(ref) == NodeAt(g.nodes, ref).props
        comp_result == {c \in MatchNodes(g.nodes, "Competition",
                                         competition_id) :
                          c.props.season = Some(season)}
        rows == {row \in RelsOfType(g, "SCORED_IN", "Player", "Match")
                         \X RelsOfType(g, "PART_OF", "Match", "Competition") :
                   /\ row[2].from = row[1].to
                   /\ NodeAt(g.nodes, row[2].to) \in comp_result}
        scorers == {[p |-> p,
                     goals |-> Cardinality({row \in rows : row[1].from = p})]
                    : p \in {row[1].from : row \in rows}}
        by_goals(S) == [x \in S |-> x.goals]
        teams(p) == {node(r.to).name :
                       r \in {x \in RelsOfType(g, "PLAYS_FOR", "Player",
                                               "Team") : x.from = p}}
        (* RETURN p.name, p.player_id, goals, collect(DISTINCT t.name)[0]  *)
        (* groups the rows by its first three columns.                     *)
        with_team(kept) == {x \in kept : teams(x.p) # {}}
        group(x) == [player |-> node(x.p).name, player_id |-> x.p.key,
                     goals |-> x.goals]
        group_teams(kept, grp) ==
            UNION {teams(x.p) : x \in {y \in with_team(kept) : group(y) = grp}}
        returned(kept) ==
            UNION {{[i \in 1..Len(q) |->
                       [player |-> q[i].player, player_id |-> q[i].player_id,
                        goals |-> q[i].goals, team |-> first[i]]]
                    : first \in {f \in [1..Len(q) ->
                                          UNION {teams(x.p) : x \in kept}] :
                                   \A i \in 1..Len(q) :
                                       f[i] \in group_teams(kept, q[i])}}
                   : q \in OrderByDesc(by_goals({group(x) :
                                                   x \in with_team(kept)}))}
    IN IF comp_result = {}
       THEN {[tool |-> "get_competition_top_scorers", status |-> "not_found"]}
       ELSE UNION {{[tool |-> "get_competition_top_scorers",
                     status |-> IF results = <<>> THEN "empty" ELSE "ok",
                     scorers |-> results]
                    : results \in returned({Limit(q, limit)[i] :
                                     i \in 1..Len(Limit(q, limit))})}
                   : q \in OrderByDesc(by_goals(scorers))}

-----------------------------------------------------------------------------
(* The tools as steps: the caller receives one of the possible results.    *)
get_team_stats(team_id, season) ==
    /\ outcome' \in q_get_team_stats(G, team_id, season)
    /\ UNCHANGED <<nodes, rels, team_cache, calls>>

search_matches(team, date_from, date_to, competition) ==
    /\ outcome' \in q_search_matches(G, team, date_from, date_to, competition)
    /\ UNCHANGED <<nodes, rels, team_cache, calls>>

get_head_to_head(team1_id, team2_id) ==
    /\ outcome' \in q_get_head_to_head(G, team1_id, team2_id)
    /\ UNCHANGED <<nodes, rels, team_cache, calls>>

get_competition_top_scorers(competition_id, season, limit) ==
    /\ outcome' \in q_get_competition_top_scorers(G, competition_id, season,
                                                  limit)
    /\ UNCHANGED <<nodes, rels, team_cache, calls>>

(* Loads and queries over matches with and without their team edges.       *)
G3 == Goal(Id("P001"), Id("M002"), 30, "regular")

TeamIds == {Id("T001"), Id("T002"), Id("T999")}
SeasonArgs == {"2023", "2022"}
OptSeasonArgs == {None} \cup {Some(season) : season \in SeasonArgs}
TeamTerms == {None, Some("FLU"), Some("santos")}
DateArgs == {None, Some(<<2023, 5, 1>>)}
CompetitionTerms == {None, Some("serie a")}
CompetitionIds == {Id("C001"), Id("C999")}
Limits == {1, 2}

NextQueries ==
    \/ load_player(P001)
    \/ \E team \in {T001, T002} : load_team(team)
    \/ load_competition(C001)
    \/ \E match \in {M001, M001_no_away, M002, M002_no_home} : load_match(match)
    \/ load_player_contract(K1)
    \/ \E goal \in {G1, G3} : load_goal(goal)
    \/ \E team_id \in TeamIds, season \in OptSeasonArgs :
          get_team_stats(team_id, season)
    \/ \E team \in TeamTerms, date_from \in DateArgs, date_to \in DateArgs,
          competition \in CompetitionTerms :
          search_matches(team, date_from, date_to, competition)
    \/ \E team1_id \in TeamIds, team2_id \in TeamIds :
          get_head_to_head(team1_id, team2_id)
    \/ \E competition_id \in CompetitionIds, season \in SeasonArgs,
          limit \in Limits :
          get_competition_top_scorers(competition_id, season, limit)
    \/ clear_database

SpecQueries == Init /\ [][NextQueries]_vars

(* A match node without a PLAYED_HOME or without a PLAYED_AWAY source, and *)
(* the graph with that node and its relationships taken out.               *)
LacksTeamEdge(g, m) ==
    \/ RelsInto(g.rels, "PLAYED_HOME", m) = {}
    \/ RelsInto(g.rels, "PLAYED_AWAY", m) = {}

Without(g, m) ==
    [nodes |-> g.nodes \ {m},
     rels |-> {r \in g.rels : r.from # Ref(m) /\ r.to # Ref(m)}]

(* C10: a Match without its PLAYED_HOME or PLAYED_AWAY edge adds nothing   *)
(* to get_team_stats, get_head_to_head, search_matches and                 *)
(* get_competition_top_scorers (each returns what it returns on the graph  *)
(* without that match), and none of them fails.                            *)
C10_IncompleteMatchIsAbsent ==
    \A m \in MatchNodesOf(nodes) :
        LacksTeamEdge(G, m) =>
            /\ \A team_id \in TeamIds, season \in OptSeasonArgs :
                  q_get_team_stats(G, team_id, season)
                    = q_get_team_stats(Without(G, m), team_id, season)
            /\ \A team1_id \in TeamIds, team2_id \in TeamIds :
                  /\ q_get_head_to_head(G, team1_id, team2_id)
                       = q_get_head_to_head(Without(G, m), team1_id, team2_id)
                  /\ \A result \in q_get_head_to_head(G, team1_id, team2_id) :
                        result.status # "TypeError"
            /\ \A team \in TeamTerms, date_from \in DateArgs,
                  date_to \in DateArgs, competition \in CompetitionTerms :
                  q_search_matches(G, team, date_from, date_to, competition)
                    = q_search_matches(Without(G, m), team, date_from, date_to,
                                       competition)
            /\ \A competition_id \in CompetitionIds, season \in SeasonArgs,
                  limit \in Limits :
                  q_get_competition_top_scorers(G, competition_id, season,
                                                limit)
                    = q_get_competition_top_scorers(Without(G, m),
                                                    competition_id, season,
                                                    limit)

(* A goal is recorded in a match without team edges and in a complete one, *)
(* the scorer has a team, and the top-scorers tool has just returned a     *)
(* list.                                                                   *)
C10_Witness ==
    /\ \E m \in MatchNodesOf(nodes) :
          /\ LacksTeamEdge(G, m)
          /\ RelsInto(rels, "SCORED_IN", m) # {}
    /\ \E m \in MatchNodesOf(nodes) :
          /\ ~LacksTeamEdge(G, m)
          /\ RelsOutOf(rels, "PART_OF", m) # {}
          /\ RelsInto(rels, "SCORED_IN", m) # {}
    /\ outcome.tool = "get_competition_top_scorers"
    /\ outcome.status = "ok"
    /\ outcome \in q_get_competition_top_scorers(G, Id("C001"), "2023", 2)
    /\ outcome.scorers[1].goals = 1

-----------------------------------------------------------------------------
(* server.py : get_team_roster and get_player_career.                      *)

(* The characters of the texts, in code point order.                       *)
CodePoints == <<" ", "(", ")", "A", "B", "C", "D", "E", "F", "G", "H", "I",
                "J", "K", "L", "M", "N", "O", "P", "Q", "R", "S", "T", "U",
                "V", "W", "X", "Y", "Z", "a", "b", "c", "d", "e", "f", "g",
                "h", "i", "j", "k", "l", "m", "n", "o", "p", "q", "r", "s",
                "t", "u", "v", "w", "x", "y", "z">>

CodePoint(char) == CHOOSE i \in 1..Len(CodePoints) : CodePoints[i] = char

(* a < b for two texts: the order of Cypher ORDER BY and of python str.    *)
TextLess(a, b) ==
    LET ca == Chars(a)
        cb == Chars(b)
        n == IF Len(ca) < Len(cb) THEN Len(ca) ELSE Len(cb)
        differ == {i \in 1..n : ca[i] # cb[i]}
    IN IF differ = {} THEN Len(ca) < Len(cb)
       ELSE LET i == CHOOSE k \in differ : \A j \in differ : k <= j
            IN CodePoint(ca[i]) < CodePoint(cb[i])

(* Ascending ORDER BY on an optional text: null sorts after every value.   *)
OptTextLess(a, b) ==
    /\ a # None
    /\ (b = None \/ TextLess(Val(a), Val(b)))

(* The Cypher type of what the loaders store in a property, and of the     *)
(* value of date().                                                        *)
TypeOfStored(attr) ==
    IF attr \in {"home_score", "away_score", "attendance", "round",
                 "home_corners", "away_corners", "home_shots", "away_shots",
                 "jersey_number", "overall_rating", "founded_year", "tier",
                 "capacity", "opened_year", "minute"}
    THEN "INTEGER" ELSE "STRING"

(* a >= b in Cypher.  Values of different types are not comparable: the    *)
(* comparison is null.  Two ISO date texts compare as texts, two dates as  *)
(* dates.                                                                  *)
cypher_ge(a, b) ==
    IF a.type # b.type THEN None
    ELSE IF a.type = "DATE"
         THEN Some(IsoLE(isoformat(b.value), isoformat(a.value)))
         ELSE Some(IsoLE(b.value, a.value))

(* A test that never takes the not-found branch.                           *)
no_rows_never(results) == FALSE

(* python: if not results                                                  *)
no_rows(results) == results = {}

(* get_team_roster.  today is the value of date() when the query runs.     *)
q_get_team_roster(g, team_id, today) ==
    LET node(ref) == NodeAt(g.nodes, ref).props
        team_result == MatchNodes(g.nodes, "Team", team_id)
        rows == {r \in RelsOfType(g, "PLAYS_FOR", "Player", "Team") :
                   /\ r.to.key = team_id
                   /\ \/ r.props.end_date = None
                      \/ cypher_ge([type |-> TypeOfStored("end_date"),
                                    value |-> Val(r.props.end_date)],
                                   [type |-> "DATE", value |-> today])
                           = Some(TRUE)}
        before(a, b) ==
            \/ OptTextLess(node(a.from).position, node(b.from).position)
            \/ /\ node(a.from).position = node(b.from).position
               /\ OptTextLess(node(a.from).name, node(b.from).name)
        rank == [r \in rows |-> 0 - Cardinality({x \in rows : before(x, r)})]
        returned(r) == [player_id |-> r.from.key,
                        name |-> node(r.from).name,
                        position |-> node(r.from).position,
                        jersey_number |-> node(r.from).jersey_number,
                        joined |-> r.props.start_date]
    IN IF no_rows(team_result)
       THEN {[tool |-> "get_team_roster", status |-> "not_found"]}
       ELSE {[tool |-> "get_team_roster",
              status |-> IF rows = {} THEN "empty" ELSE "ok",
              players |-> [i \in 1..Len(q) |-> returned(q[i])]]
             : q \in OrderByDesc(rank)}

(* A sort key taken from the end of the stint.                             *)
career_key_by_end(stint) ==
    IF stint.end_date = None THEN 0 ELSE DateKey(stint.end_date)

(* key=lambda x: x["start_date"] or "" : the empty text is below every     *)
(* date text.                                                              *)
career_key(stint) ==
    IF stint.start_date = None THEN 0 ELSE DateKey(stint.start_date)

(* get_player_career.  OPTIONAL MATCH gives a player without contracts one *)
(* row of nulls, which the list comprehension drops (as it drops a stint   *)
(* at a team without a name); sorted() is ascending on start_date or "",   *)
(* and keeps stints with equal keys in the order collect() gave them.      *)
q_get_player_career(g, player_id) ==
    LET node(ref) == NodeAt(g.nodes, ref).props
        results == MatchNodes(g.nodes, "Player", player_id)
        stints(p) == {r \in RelsOfType(g, "PLAYS_FOR", "Player", "Team") :
                        r.from = Ref(p) /\ node(r.to).name # None}
        rank(p) == [r \in stints(p) |-> 0 - career_key(r.props)]
        stint(r) == [team |-> node(r.to).name, team_id |-> r.to.key,
                     start_date |-> r.props.start_date,
                     end_date |-> r.props.end_date]
    IN IF no_rows(results)
       THEN {[tool |-> "get_player_career", status |-> "not_found"]}
       ELSE UNION {{[tool |-> "get_player_career",
                     status |-> IF stints(p) = {} THEN "empty" ELSE "ok",
                     name |-> p.props.name,
                     career |-> [i \in 1..Len(q) |-> stint(q[i])]]
                    : q \in OrderByDesc(rank(p))}
                   : p \in results}

get_team_roster(team_id, today) ==
    /\ outcome' \in q_get_team_roster(G, team_id, today)
    /\ UNCHANGED <<nodes, rels, team_cache, calls>>

get_player_career(player_id) ==
    /\ outcome' \in q_get_player_career(G, player_id)
    /\ UNCHANGED <<nodes, rels, team_cache, calls>>

-----------------------------------------------------------------------------
(* Rosters and careers over DataLoader contracts (SpecRoster).             *)
P004 == Player(Id("P004"), "Everton Ribeiro", Some(Date(1989, 4, 10)),
               "Brazilian", "Midfielder", Some(7))
(* A stint at another club, and a contract that ends on 2023-12-31.        *)
K3 == PlayerContract(Id("P001"), Id("T002"), Date(2015, 1, 1),
                     Some(Date(2018, 12, 31)))
K4 == PlayerContract(Id("P004"), Id("T001"), Date(2017, 1, 1),
                     Some(Date(2023, 12, 31)))

(* Days on which the roster is asked for: before and after 2023-12-31.     *)
RosterDates == {Date(2023, 6, 1), Date(2024, 6, 1)}
RosterTeamIds == {Id("T001"), Id("T002"), Id("T999")}
CareerPlayerIds == {Id("P001"), Id("P004"), Id("P999")}

NextRoster ==
    \/ \E player \in {P001, P004} : load_player(player)
    \/ \E team \in {T001, T002} : load_team(team)
    \/ \E contract \in {K1, K2, K3, K4} : load_player_contract(contract)
    \/ \E team_id \in RosterTeamIds, today \in RosterDates :
          get_team_roster(team_id, today)
    \/ \E player_id \in CareerPlayerIds : get_player_career(player_id)
    \/ clear_database

SpecRoster == Init /\ [][NextRoster]_vars

(* The players the roster of a team must hold on a day: those with a       *)
(* PLAYS_FOR edge to the team whose end_date is missing or not before the  *)
(* day.                                                                    *)
RosterOn(team_id, today) ==
    {r.from.key : r \in {x \in RelsOfType(G, "PLAYS_FOR", "Player", "Team") :
        /\ x.to.key = team_id
        /\ \/ x.props.end_date = None
           \/ IsoLE(isoformat(today), Val(x.props.end_date))}}

(* C11: for an existing team and every day, the roster holds exactly the   *)
(* players with a PLAYS_FOR edge to the team whose end_date is null or on  *)
(* or after that day.                                                      *)
C11_RosterIsCurrentPlayers ==
    \A team_id \in RosterTeamIds, today \in RosterDates :
        \A result \in q_get_team_roster(G, team_id, today) :
            result.status # "not_found" =>
                {result.players[i].player_id : i \in 1..Len(result.players)}
                  = RosterOn(team_id, today)

PlaysForInto(team_id) ==
    {r \in RelsOfType(G, "PLAYS_FOR", "Player", "Team") : r.to.key = team_id}
PlaysForOutOf(player_id) ==
    {r \in RelsOfType(G, "PLAYS_FOR", "Player", "Team") :
       r.from.key = player_id}

(* C12: a team id (player id) with no node gives not-found; an existing    *)
(* team (player) without a PLAYS_FOR edge gives an empty roster (career),  *)
(* which is another result; and not-found is given in no other case.       *)
C12_NotFoundIsNotEmpty ==
    /\ \A team_id \in RosterTeamIds, today \in RosterDates :
          LET results == q_get_team_roster(G, team_id, today)
          IN /\ results # {}
             /\ ~HasNode(nodes, "Team", team_id) =>
                   results = {[tool |-> "get_team_roster",
                               status |-> "not_found"]}
             /\ HasNode(nodes, "Team", team_id) =>
                   \A result \in results :
                      /\ result.status \in {"empty", "ok"}
                      /\ PlaysForInto(team_id) = {} =>
                            result.status = "empty" /\ result.players = <<>>
    /\ \A player_id \in CareerPlayerIds :
          LET results == q_get_player_career(G, player_id)
          IN /\ results # {}
             /\ ~HasNode(nodes, "Player", player_id) =>
                   results = {[tool |-> "get_player_career",
                               status |-> "not_found"]}
             /\ HasNode(nodes, "Player", player_id) =>
                   \A result \in results :
                      /\ result.status \in {"empty", "ok"}
                      /\ PlaysForOutOf(player_id) = {} =>
                            result.status = "empty" /\ result.career = <<>>

(* A player is under contract somewhere, another player exists without a   *)
(* contract, and the career tool has just returned his empty career.       *)
C12_Witness ==
    /\ rels # {}
    /\ HasNode(nodes, "Player", Id("P004"))
    /\ PlaysForOutOf(Id("P004")) = {}
    /\ ~HasNode(nodes, "Team", Id("T999"))
    /\ outcome.tool = "get_player_career"
    /\ outcome.status = "empty"
    /\ outcome.name = Some("Everton Ribeiro")

-----------------------------------------------------------------------------
(* Careers over DataLoader contracts and over the PLAYS_FOR relationships  *)
(* of the Kaggle player files, which carry no start_date (SpecCareer).     *)
K_kaggle_flu == PlayerContract(<<"P", 1>>, <<"T", "FLUMINENSE">>,
                               Date(2018, 1, 1), Some(Date(2021, 12, 31)))
CareerContracts == {K1, K2, K3, K_kaggle, K_kaggle_flu}
CareerIds == {Id("P001"), <<"P", 1>>, Id("P999")}

NextCareer ==
    \/ load_player(P001)
    \/ \E team \in {T001, T002} : load_team(team)
    \/ \E contract \in CareerContracts : load_player_contract(contract)
    \/ _load_teams
    \/ \E csv \in CsvFiles({FIFA_row, FIFA_row_older}, MaxCsvRows) :
          _load_players(csv)
    \/ \E player_id \in CareerIds : get_player_career(player_id)
    \/ clear_database

SpecCareer == Init /\ [][NextCareer]_vars

(* The graph with every end_date of a PLAYS_FOR relationship removed.      *)
WithoutEndDates(g) ==
    [g EXCEPT !.rels = {IF r.type = "PLAYS_FOR"
                           THEN [r EXCEPT !.props.end_date = None]
                           ELSE r : r \in g.rels}]

Stints(result) ==
    [i \in 1..Len(result.career) |->
       <<result.career[i].team_id, result.career[i].start_date>>]

(* C13: the career of a player holds one stint per PLAYS_FOR edge, in      *)
(* ascending order of start_date with the stints without start_date       *)
(* first, and the possible orders are those of the same graph without its  *)
(* end dates.                                                              *)
C13_CareerAscendingByStart ==
    \A player_id \in CareerIds :
        /\ \A result \in q_get_player_career(G, player_id) :
              result.status # "not_found" =>
                 /\ Len(result.career) = Cardinality(PlaysForOutOf(player_id))
                 /\ {result.career[i].team_id : i \in 1..Len(result.career)}
                      = {r.to.key : r \in PlaysForOutOf(player_id)}
                 /\ \A i, j \in 1..Len(result.career) :
                       i < j =>
                          \/ result.career[i].start_date = None
                          \/ /\ result.career[j].start_date # None
                             /\ IsoLE(Val(result.career[i].start_date),
                                      Val(result.career[j].start_date))
        /\ {Stints(result) :
              result \in {x \in q_get_player_career(G, player_id) :
                            x.status # "not_found"}}
             = {Stints(result) :
                  result \in {x \in q_get_player_career(WithoutEndDates(G),
                                                        player_id) :
                                x.status # "not_found"}}

(* The career tool has just listed a stint without start_date before a     *)
(* dated one, and the earlier of two dated stints is the one that ended.   *)
C13_Witness ==
    /\ outcome.tool = "get_player_career"
    /\ outcome.status = "ok"
    /\ Len(outcome.career) = 2
    /\ outcome.career[1].start_date = None
    /\ outcome.career[2].start_date # None
    /\ \E a, b \in PlaysForOutOf(Id("P001")) :
          /\ a.props.end_date = None
          /\ b.props.end_date # None
          /\ DateKey(b.props.start_date) < DateKey(a.props.start_date)

-----------------------------------------------------------------------------
(* Team statistics and head-to-head over matches that are loaded once or   *)
(* loaded again under the same match_id (SpecStats).                       *)
T003 == Team(Id("T003"), "Corinthians", "Sao Paulo",
             Some("Neo Quimica Arena"), Some(1910), Some("Black and White"))
C003 == Competition(Id("C003"), "Copa do Brasil", "2023", "cup", 1)
(* M001 loaded again as a match of the cup of the same season.             *)
M001_cup == Match(Id("M001"), Date(2023, 4, 16), Id("T001"), Id("T002"), 2, 1,
                  Id("C003"), Some(65000))
(* M001 loaded again with another home team.                               *)
M001_third == Match(Id("M001"), Date(2023, 4, 16), Id("T003"), Id("T002"),
                    0, 1, Id("C001"), Some(65000))

StatsMatches == {M001, M002, M001_cup, M001_third}
StatsTeamIds == {Id("T001"), Id("T002"), Id("T003")}

NextStats ==
    \/ \E team \in {T001, T002, T003} : load_team(team)
    \/ \E competition \in {C001, C003} : load_competition(competition)
    \/ \E match \in StatsMatches : load_match(match)
    \/ \E team_id \in StatsTeamIds, season \in OptSeasonArgs :
          get_team_stats(team_id, season)
    \/ \E team1_id \in StatsTeamIds, team2_id \in StatsTeamIds :
          get_head_to_head(team1_id, team2_id)
    \/ clear_database

SpecStats == Init /\ [][NextStats]_vars

(* The matches a team played on one side, of a season when one is given.   *)
InSeason(m, season) ==
    \/ season = None
    \/ \E r \in RelsOutOf(rels, "PART_OF", m) :
          NodeAt(nodes, r.to).props.season = season

MatchesOf(team_id, type, season) ==
    {m \in MatchNodesOf(nodes) :
        /\ \E r \in RelsInto(rels, type, m) : r.from.key = team_id
        /\ InSeason(m, season)}

(* The figures of a set of matches seen from one side.                     *)
Figures(ms, own, other) ==
    [matches |-> Cardinality(ms),
     wins |-> Cardinality({m \in ms : Gt(m.props[own], m.props[other])}),
     draws |-> Cardinality({m \in ms : Eq(m.props[own], m.props[other])}),
     losses |-> Cardinality({m \in ms : Gt(m.props[other], m.props[own])}),
     goals_for |-> Sum([m \in ms |-> OrZero(m.props[own])]),
     goals_against |-> Sum([m \in ms |-> OrZero(m.props[other])])]

(* C14: get_team_stats reports the home figures of the team's PLAYED_HOME  *)
(* matches plus the away figures of its PLAYED_AWAY matches, of the        *)
(* matches of the season when a season is passed.                          *)
C14_TeamStatsAreHomePlusAway ==
    \A team_id \in StatsTeamIds, season \in OptSeasonArgs :
        \A result \in q_get_team_stats(G, team_id, season) :
            result.status = "ok" =>
               LET home == Figures(MatchesOf(team_id, "PLAYED_HOME", season),
                                   "home_score", "away_score")
                   away == Figures(MatchesOf(team_id, "PLAYED_AWAY", season),
                                   "away_score", "home_score")
               IN /\ result.total_matches = home.matches + away.matches
                  /\ result.total_wins = home.wins + away.wins
                  /\ result.total_draws = home.draws + away.draws
                  /\ result.total_losses = home.losses + away.losses
                  /\ result.goals_for = home.goals_for + away.goals_for
                  /\ result.goals_against
                       = home.goals_against + away.goals_against

(* C15: get_head_to_head(A, B) and get_head_to_head(B, A) are mirror       *)
(* images: same outcome kind, same total and draws, wins and goals of      *)
(* team1 in one equal to those of team2 in the other.                      *)
C15_HeadToHeadSymmetric ==
    \A a \in StatsTeamIds, b \in StatsTeamIds :
        \A ab \in q_get_head_to_head(G, a, b),
           ba \in q_get_head_to_head(G, b, a) :
            /\ ab.status = ba.status
            /\ ab.status = "ok" =>
                  /\ ab.total_matches = ba.total_matches
                  /\ ab.draws = ba.draws
                  /\ ab.team1_wins = ba.team2_wins
                  /\ ab.team2_wins = ba.team1_wins
                  /\ ab.team1_goals = ba.team2_goals
                  /\ ab.team2_goals = ba.team1_goals

(* The matches between two teams: one of them at home, the other away.     *)
MatchesBetween(a, b) ==
    {m \in MatchNodesOf(nodes) :
        \/ /\ \E r \in RelsInto(rels, "PLAYED_HOME", m) : r.from.key = a
           /\ \E r \in RelsInto(rels, "PLAYED_AWAY", m) : r.from.key = b
        \/ /\ \E r \in RelsInto(rels, "PLAYED_HOME", m) : r.from.key = b
           /\ \E r \in RelsInto(rels, "PLAYED_AWAY", m) : r.from.key = a}

(* C16: get_head_to_head counts each match between the two teams once,     *)
(* lists the matches by descending date, and reports the same statistics   *)
(* whatever the order of the list.                                         *)
C16_HeadToHeadCountsEachMatchOnce ==
    \A a \in StatsTeamIds, b \in StatsTeamIds :
        \A result \in q_get_head_to_head(G, a, b) :
            result.status = "ok" =>
               /\ result.total_matches = Cardinality(MatchesBetween(a, b))
               /\ result.team1_wins + result.team2_wins + result.draws
                    = Cardinality(MatchesBetween(a, b))
               /\ \A i \in 1..(Len(result.recent) - 1) :
                     DateKey(result.recent[i].date)
                       >= DateKey(result.recent[i + 1].date)
               /\ \A other \in q_get_head_to_head(G, a, b) :
                     [result EXCEPT !.recent = <<>>]
                       = [other EXCEPT !.recent = <<>>]

-----------------------------------------------------------------------------
(* Top scorers over two players, with and without a team (SpecScorers).    *)
G4 == Goal(Id("P004"), Id("M001"), 60, "regular")

ScorerGoals == {G1, G3, G4}
ScorerLimits == {1, 2, 3}

NextScorers ==
    \/ \E player \in {P001, P004} : load_player(player)
    \/ \E team \in {T001, T002} : load_team(team)
    \/ load_competition(C001)
    \/ \E match \in {M001, M002} : load_match(match)
    \/ \E contract \in {K1, K4} : load_player_contract(contract)
    \/ \E goal \in ScorerGoals : load_goal(goal)
    \/ \E competition_id \in CompetitionIds, season \in SeasonArgs,
          limit \in ScorerLimits :
          get_competition_top_scorers(competition_id, season, limit)
    \/ clear_database

SpecScorers == Init /\ [][NextScorers]_vars

(* C17: the top scorers are listed by descending goal count.               *)
C17_TopScorersDescending ==
    \A competition_id \in CompetitionIds, season \in SeasonArgs,
       limit \in ScorerLimits :
        \A result \in q_get_competition_top_scorers(G, competition_id,
                                                    season, limit) :
            result.status # "not_found" =>
               \A i \in 1..(Len(result.scorers) - 1) :
                   result.scorers[i].goals >= result.scorers[i + 1].goals

(* The tool has just listed a player with two goals before one with one.   *)
C17_Witness ==
    /\ outcome.tool = "get_competition_top_scorers"
    /\ outcome.status = "ok"
    /\ Len(outcome.scorers) = 2
    /\ outcome.scorers[1].goals = 2
    /\ outcome.scorers[2].goals = 1

(* The players with a goal in a match of the competition season.           *)
ScorersOf(competition_id, season) ==
    {r.from.key :
       r \in {x \in RelsOfType(G, "SCORED_IN", "Player", "Match") :
                \E c \in RelsOfType(G, "PART_OF", "Match", "Competition") :
                    /\ c.from = x.to
                    /\ c.to.key = competition_id
                    /\ NodeAt(nodes, c.to).props.season = Some(season)}}

(* C18: the result has min(limit, number of scorers) records, each with a  *)
(* team name.                                                              *)
C18_TopScorersKeepLimitPlayers ==
    \A competition_id \in CompetitionIds, season \in SeasonArgs,
       limit \in ScorerLimits :
        \A result \in q_get_competition_top_scorers(G, competition_id,
                                                    season, limit) :
            result.status # "not_found" =>
               LET n == Cardinality(ScorersOf(competition_id, season))
               IN Len(result.scorers) = IF n < limit THEN n ELSE limit

-----------------------------------------------------------------------------
(* server.py : find_common_teammates.                                      *)

(* Paths that only follow contracts without end_date.                      *)
teammate_paths_current(g, player_id) ==
    {path \in RelsOfType(g, "PLAYS_FOR", "Player", "Team")
              \X RelsOfType(g, "PLAYS_FOR", "Player", "Team") :
        /\ path[1].from.key = player_id
        /\ path[2].to = path[1].to
        /\ path[1].props.end_date = None
        /\ path[2].props.end_date = None}

(* The paths (p {player_id})-[:PLAYS_FOR]->(t)<-[:PLAYS_FOR]-(teammate).   *)
teammate_paths(g, player_id) ==
    {path \in RelsOfType(g, "PLAYS_FOR", "Player", "Team")
              \X RelsOfType(g, "PLAYS_FOR", "Player", "Team") :
        /\ path[1].from.key = player_id
        /\ path[2].to = path[1].to}

(* Rows with any teammate, a relationship used twice in a path included.   *)
common_rows_unfiltered(g, player1_id, player2_id) ==
    {row \in teammate_paths(g, player1_id) \X teammate_paths(g, player2_id) :
        row[1][2].from = row[2][2].from}

(* The rows of the two MATCH clauses: a path does not use a relationship   *)
(* twice, both paths end in the same teammate node, and the WHERE clause   *)
(* drops the two players themselves.                                       *)
common_rows(g, player1_id, player2_id) ==
    {row \in teammate_paths(g, player1_id) \X teammate_paths(g, player2_id) :
        /\ row[1][1] # row[1][2]
        /\ row[2][1] # row[2][2]
        /\ row[1][2].from = row[2][2].from
        /\ row[1][2].from.key # player1_id
        /\ row[1][2].from.key # player2_id}

(* RETURN DISTINCT groups the rows by teammate name and id; the teams are  *)
(* collect(DISTINCT ...) lists, whose order is not specified.              *)
q_find_common_teammates(g, player1_id, player2_id) ==
    LET node(ref) == NodeAt(g.nodes, ref).props
        players_result == MatchNodes(g.nodes, "Player", player1_id)
                          \X MatchNodes(g.nodes, "Player", player2_id)
        rows == common_rows(g, player1_id, player2_id)
        group(row) == [name |-> node(row[1][2].from).name,
                       player_id |-> row[1][2].from.key]
        returned(grp) ==
            [name |-> grp.name, player_id |-> grp.player_id,
             teams_with_p1 |-> {node(row[1][1].to).name :
                                  row \in {x \in rows : group(x) = grp}},
             teams_with_p2 |-> {node(row[2][1].to).name :
                                  row \in {x \in rows : group(x) = grp}}]
    IN IF no_rows(players_result)
       THEN {[tool |-> "find_common_teammates", status |-> "not_found"]}
       ELSE {[tool |-> "find_common_teammates",
              status |-> IF rows = {} THEN "empty" ELSE "ok",
              player1_name |-> x[1][1].props.name,
              player2_name |-> x[1][2].props.name,
              teammates |-> [i \in 1..Len(x[2]) |-> returned(x[2][i])]]
             : x \in players_result \X Perms({group(row) : row \in rows})}

find_common_teammates(player1_id, player2_id) ==
    /\ outcome' \in q_find_common_teammates(G, player1_id, player2_id)
    /\ UNCHANGED <<nodes, rels, team_cache, calls>>

-----------------------------------------------------------------------------
(* Common teammates: three players of the sample data at two clubs.        *)

P003 == Player(Id("P003"), "Arrascaeta", Some(Date(1994, 6, 1)), "Uruguayan",
               "Midfielder", Some(14))
K5 == PlayerContract(Id("P003"), Id("T001"), Date(2019, 1, 1), None)
(* A stint at the second club, after the one of P001 there had ended.      *)
K6 == PlayerContract(Id("P003"), Id("T002"), Date(2020, 1, 1),
                     Some(Date(2020, 12, 31)))

TeammatePlayers == {P001, P003, P004}
TeammateContracts == {K1, K3, K4, K5, K6}
TeammateIds == {Id("P001"), Id("P003"), Id("P004"), Id("P999")}

NextTeammates ==
    \/ \E player \in TeammatePlayers : load_player(player)
    \/ \E team \in {T001, T002} : load_team(team)
    \/ \E contract \in TeammateContracts : load_player_contract(contract)
    \/ \E player1_id \in TeammateIds, player2_id \in TeammateIds :
          find_common_teammates(player1_id, player2_id)
    \/ clear_database

SpecTeammates == Init /\ [][NextTeammates]_vars

(* C19: whatever the two player ids, equal ones included, no record of a   *)
(* find_common_teammates result carries the id of either of them.          *)
C19_NeverThePlayersThemselves ==
    \A player1_id \in TeammateIds, player2_id \in TeammateIds :
        \A result \in q_find_common_teammates(G, player1_id, player2_id) :
            result.status # "not_found" =>
                \A i \in DOMAIN result.teammates :
                    result.teammates[i].player_id \notin {player1_id, player2_id}

(* P001 and P003 share both clubs with each other and one with P004; the   *)
(* result for the pair names P004 only.                                    *)
C19_Witness ==
    /\ outcome.tool = "find_common_teammates"
    /\ outcome.status = "ok"
    /\ outcome.player1_name = Some("Gabriel Barbosa (Gabigol)")
    /\ outcome.player2_name = Some("Arrascaeta")
    /\ Len(outcome.teammates) = 1
    /\ outcome.teammates[1].player_id = Id("P004")
    /\ \E r \in rels : r.type = "PLAYS_FOR" /\ r.from.key = Id("P003")
                       /\ r.to.key = Id("T002")
    /\ \E r \in rels : r.type = "PLAYS_FOR" /\ r.from.key = Id("P001")
                       /\ r.to.key = Id("T002")

(* The teams a player has a PLAYS_FOR edge to.                             *)
TeamsOf(player_id) ==
    {r.to : r \in {x \in rels : x.type = "PLAYS_FOR" /\ x.from.key = player_id}}

(* The players other than the two with an edge to a team of each of them.  *)
CommonTeammates(player1_id, player2_id) ==
    {n.key : n \in {x \in nodes :
        /\ x.label = "Player"
        /\ x.key \notin {player1_id, player2_id}
        /\ TeamsOf(x.key) \cap TeamsOf(player1_id) # {}
        /\ TeamsOf(x.key) \cap TeamsOf(player2_id) # {}}}

(* C20: when both players exist, the result holds exactly one record for   *)
(* each player other than the two with a PLAYS_FOR edge to a team of the   *)
(* first and to a team of the second, whatever the dates of the edges, and *)
(* is an empty collection, never an error, when there is none.             *)
C20_ExactlyTheCommonTeammates ==
    \A player1_id \in TeammateIds, player2_id \in TeammateIds :
        \A result \in q_find_common_teammates(G, player1_id, player2_id) :
            (/\ MatchNodes(nodes, "Player", player1_id) # {}
             /\ MatchNodes(nodes, "Player", player2_id) # {})
            => /\ result.status \in {"ok", "empty"}
               /\ {result.teammates[i].player_id : i \in DOMAIN result.teammates}
                    = CommonTeammates(player1_id, player2_id)
               /\ Len(result.teammates)
                    = Cardinality(CommonTeammates(player1_id, player2_id))
               /\ (result.status = "empty") = (result.teammates = <<>>)

(* P004, whose only contract ended in 2023, asked against itself: the      *)
(* result names its club mates P001 and P003.                              *)
C20_Witness ==
    /\ outcome.tool = "find_common_teammates"
    /\ outcome.status = "ok"
    /\ outcome.player1_name = Some("Everton Ribeiro")
    /\ outcome.player2_name = Some("Everton Ribeiro")
    /\ Len(outcome.teammates) = 2

-----------------------------------------------------------------------------
(* server.py : find_players_who_played_for_both_teams.                     *)

(* ORDER BY r1.start_date, ascending: Cypher sorts null after every value. *)
start_rank(start_date) == 0 - DateKey(start_date)

(* One row per pair of PLAYS_FOR relationships of one player, the first    *)
(* into team 1 and the second into team 2; the two MATCH clauses are       *)
(* separate, so for equal teams both may be the same relationship.  No     *)
(* row, for a missing team as for teams without a common player, gives     *)
(* the one text "No players found who played for both teams".              *)
q_find_players_who_played_for_both_teams(g, team1_id, team2_id) ==
    LET node(ref) == NodeAt(g.nodes, ref).props
        results == {row \in RelsOfType(g, "PLAYS_FOR", "Player", "Team")
                            \X RelsOfType(g, "PLAYS_FOR", "Player", "Team") :
                      /\ row[1].to.key = team1_id
                      /\ row[2].to.key = team2_id
                      /\ row[1].from = row[2].from}
        rank == [row \in results |-> start_rank(row[1].props.start_date)]
        returned(row) ==
            [player |-> node(row[1].from).name,
             player_id |-> row[1].from.key,
             team1_start |-> row[1].props.start_date,
             team1_end |-> row[1].props.end_date,
             team2_start |-> row[2].props.start_date,
             team2_end |-> row[2].props.end_date]
    IN IF no_rows(results)
       THEN {[tool |-> "find_players_who_played_for_both_teams",
              status |-> "empty", players |-> <<>>]}
       ELSE {[tool |-> "find_players_who_played_for_both_teams",
              status |-> "ok",
              team1_name |-> node(q[1][1].to).name,
              team2_name |-> node(q[1][2].to).name,
              players |-> [i \in 1..Len(q) |-> returned(q[i])]]
             : q \in OrderByDesc(rank)}

find_players_who_played_for_both_teams(team1_id, team2_id) ==
    /\ outcome' \in q_find_players_who_played_for_both_teams(G, team1_id, team2_id)
    /\ UNCHANGED <<nodes, rels, team_cache, calls>>

-----------------------------------------------------------------------------
(* Players of two clubs: PLAYS_FOR relationships of the Kaggle player      *)
(* files, without start_date, next to contracts with one (SpecBothTeams).  *)

KB1 == PlayerContract(Id("P001"), <<"T", "FLAMENGO">>, Date(2019, 1, 1), None)
KB2 == PlayerContract(Id("P001"), <<"T", "FLUMINENSE">>, Date(2015, 1, 1),
                      Some(Date(2018, 12, 31)))
BothTeamsContracts == {KB1, KB2, K_kaggle_flu}
BothTeamsIds == {<<"T", "FLAMENGO">>, <<"T", "FLUMINENSE">>, Id("T999")}

NextBothTeams ==
    \/ load_player(P001)
    \/ _load_teams
    \/ \E csv \in CsvFiles({FIFA_row, FIFA_row_older}, MaxCsvRows) :
          _load_players(csv)
    \/ \E contract \in BothTeamsContracts : load_player_contract(contract)
    \/ \E team1_id \in BothTeamsIds, team2_id \in BothTeamsIds :
          find_players_who_played_for_both_teams(team1_id, team2_id)
    \/ clear_database

SpecBothTeams == Init /\ [][NextBothTeams]_vars

(* C21: the records of find_players_who_played_for_both_teams are in       *)
(* ascending order of the start_date of the stint at team 1, a record      *)
(* without that start_date before every record that has one.               *)
C21_BothTeamsAscendingNullFirst ==
    \A team1_id \in BothTeamsIds, team2_id \in BothTeamsIds :
        \A result \in q_find_players_who_played_for_both_teams(G, team1_id, team2_id) :
            \A i, j \in DOMAIN result.players :
                i < j =>
                    \/ result.players[i].team1_start = None
                    \/ /\ result.players[j].team1_start # None
                       /\ IsoLE(Val(result.players[i].team1_start),
                                Val(result.players[j].team1_start))

(* Two teams that exist and have no player in common.                      *)
ShareNoPlayer(team1_id, team2_id) ==
    /\ MatchNodes(nodes, "Team", team1_id) # {}
    /\ MatchNodes(nodes, "Team", team2_id) # {}
    /\ ~ \E r1 \in rels, r2 \in rels :
            /\ r1.type = "PLAYS_FOR" /\ r2.type = "PLAYS_FOR"
            /\ r1.from = r2.from
            /\ r1.to.key = team1_id /\ r2.to.key = team2_id

(* C24: a call of find_players_who_played_for_both_teams with a team id    *)
(* that does not exist has no outcome in common with a call on two         *)
(* existing teams that share no player.                                    *)
C24_MissingTeamIsNotEmpty ==
    \A team1_id \in BothTeamsIds, team2_id \in BothTeamsIds,
       team3_id \in BothTeamsIds, team4_id \in BothTeamsIds :
        (/\ \/ MatchNodes(nodes, "Team", team1_id) = {}
            \/ MatchNodes(nodes, "Team", team2_id) = {}
         /\ ShareNoPlayer(team3_id, team4_id))
        => q_find_players_who_played_for_both_teams(G, team1_id, team2_id)
             \cap q_find_players_who_played_for_both_teams(G, team3_id, team4_id)
             = {}

-----------------------------------------------------------------------------
(* server.py : search_player.                                              *)

(* python: if team / if position, on an optional text.                     *)
given(arg) == arg # None /\ Val(arg) # ""

(* The query is put together from its pieces.  With a team filter the      *)
(* rows are (p, t) for the PLAYS_FOR relationships into a team whose name  *)
(* matches, and the OPTIONAL MATCH that follows names the same variable t, *)
(* already bound: it finds that team again and no other.  Without the      *)
(* filter t is new and ranges over every team of the player, or is null.   *)
(* The position test is appended to the last WHERE.  The rows are grouped  *)
(* by the five returned player properties; collect(DISTINCT t.name) skips  *)
(* null and gives the names in no specified order.                         *)
q_search_player(g, name, team, position) ==
    LET node(ref) == NodeAt(g.nodes, ref).props
        plays_for == RelsOfType(g, "PLAYS_FOR", "Player", "Team")
        position_ok(p) ==
            given(position) =>
                /\ p.props.position # None
                /\ toLower(Val(p.props.position)) = toLower(Val(position))
        players == {p \in {n \in g.nodes : n.label = "Player"} :
                      name_contains(p.props.name, Some(name))}
        filtered == {r \in plays_for :
                       /\ \E p \in players : Ref(p) = r.from /\ position_ok(p)
                       /\ name_contains(node(r.to).name, team)}
        rows == IF given(team)
                THEN {<<NodeAt(g.nodes, r.from), Some(r.to)>> : r \in filtered}
                ELSE UNION {IF \E r \in plays_for : r.from = Ref(p)
                            THEN {<<p, Some(r.to)>> :
                                    r \in {x \in plays_for : x.from = Ref(p)}}
                            ELSE {<<p, None>>}
                            : p \in {x \in players : position_ok(x)}}
        group(row) == [player_id |-> row[1].key, name |-> row[1].props.name,
                       nationality |-> row[1].props.nationality,
                       position |-> row[1].props.position,
                       birth_date |-> row[1].props.birth_date]
        teams(grp) == {node(Val(row[2])).name :
                         row \in {x \in rows : group(x) = grp /\ x[2] # None}}
                      \ {None}
        returned(grp) ==
            [player_id |-> grp.player_id, name |-> grp.name,
             nationality |-> grp.nationality, position |-> grp.position,
             birth_date |-> grp.birth_date, teams |-> teams(grp)]
    IN {[tool |-> "search_player",
         status |-> IF no_rows(rows) THEN "empty" ELSE "ok",
         players |-> [i \in 1..Len(q) |-> returned(q[i])]]
        : q \in Perms({group(row) : row \in rows})}

search_player(name, team, position) ==
    /\ outcome' \in q_search_player(G, name, team, position)
    /\ UNCHANGED <<nodes, rels, team_cache, calls>>

-----------------------------------------------------------------------------
(* Player search over three players, one of them at two clubs and one at   *)
(* none (SpecSearch).                                                      *)

SearchNames == {"", "GAB", "PEDRO"}
SearchTeams == {None, Some(""), Some("FLU")}
SearchPositions == {None, Some("forward")}

NextSearch ==
    \/ \E player \in {P001, P004, P_1} : load_player(player)
    \/ \E team \in {T001, T002} : load_team(team)
    \/ \E contract \in {K1, K3, K4} : load_player_contract(contract)
    \/ \E name \in SearchNames, team \in SearchTeams,
          position \in SearchPositions : search_player(name, team, position)
    \/ clear_database

SpecSearch == Init /\ [][NextSearch]_vars

(* The teams a player has a PLAYS_FOR edge to, as nodes.                   *)
ClubsOf(player) ==
    {t \in nodes : /\ t.label = "Team"
                   /\ \E r \in rels : /\ r.type = "PLAYS_FOR"
                                      /\ r.from = Ref(player)
                                      /\ r.to = Ref(t)}

(* The players search_player is to return.                                 *)
Sought(name, team, position) ==
    {p \in nodes :
        /\ p.label = "Player"
        /\ CONTAINS(toLower(Val(p.props.name)), toLower(name))
        /\ (team # None /\ Val(team) # "") =>
              \E t \in ClubsOf(p) :
                  CONTAINS(toLower(Val(t.props.name)), toLower(Val(team)))
        /\ (position # None /\ Val(position) # "") =>
              toLower(Val(p.props.position)) = toLower(Val(position))}

(* C22: search_player returns exactly the players whose name contains the  *)
(* name, who have a club whose name contains the team when one is given,   *)
(* and whose position equals the position when one is given, all without   *)
(* regard to case; when there is none the result is empty, not an error.   *)
C22_SearchPlayerFilters ==
    \A name \in SearchNames, team \in SearchTeams, position \in SearchPositions :
        \A result \in q_search_player(G, name, team, position) :
            /\ result.status \in {"ok", "empty"}
            /\ {result.players[i].player_id : i \in DOMAIN result.players}
                 = {p.key : p \in Sought(name, team, position)}
            /\ (result.status = "empty") = (Sought(name, team, position) = {})

(* Three players are loaded and a search has returned P001 alone.          *)
C22_Witness ==
    /\ outcome.tool = "search_player"
    /\ outcome.status = "ok"
    /\ Len(outcome.players) = 1
    /\ outcome.players[1].player_id = Id("P001")
    /\ Cardinality({n \in nodes : n.label = "Player"}) = 3
    /\ \E r \in rels : r.type = "PLAYS_FOR" /\ r.from.key = Id("P004")

(* C23: the result has one record per player, and the teams of a record    *)
(* are the names of all clubs of the player, with the team filter and      *)
(* without it.                                                             *)
C23_SearchPlayerListsAllClubs ==
    \A name \in SearchNames, team \in SearchTeams, position \in SearchPositions :
        \A result \in q_search_player(G, name, team, position) :
            /\ Len(result.players)
                 = Cardinality({result.players[i].player_id :
                                  i \in DOMAIN result.players})
            /\ \A i \in DOMAIN result.players :
                  \A p \in {n \in nodes : n.label = "Player"
                                          /\ n.key = result.players[i].player_id} :
                      result.players[i].teams
                        = {t.props.name : t \in ClubsOf(p)}

-----------------------------------------------------------------------------
(* server.py : get_match_details.                                          *)

(* ORDER BY g.minute, ascending: null sorts after every minute.            *)
minute_rank(minute) == IF minute = None THEN 0 - 1000 ELSE 0 - Val(minute)

(* The first query joins the match with its home team, away team and       *)
(* competition; match = result[0] is any of its rows.  The scorers query   *)
(* has one row per SCORED_IN relationship into the match and PLAYS_FOR     *)
(* relationship of the scorer into a team with a PLAYED_HOME or            *)
(* PLAYED_AWAY relationship into the match.                                *)
q_get_match_details(g, match_id) ==
    LET node(ref) == NodeAt(g.nodes, ref).props
        result == {row \in fixture_rows(g)
                           \X RelsOfType(g, "PART_OF", "Match", "Competition") :
                     /\ row[1][1].to.key = match_id
                     /\ row[2].from = row[1][1].to}
        scorer_rows ==
            {row \in RelsOfType(g, "SCORED_IN", "Player", "Match")
                     \X RelsOfType(g, "PLAYS_FOR", "Player", "Team") :
                /\ row[1].to.key = match_id
                /\ row[2].from = row[1].from
                /\ \E side \in RelsOfType(g, "PLAYED_HOME", "Team", "Match")
                         \cup RelsOfType(g, "PLAYED_AWAY", "Team", "Match") :
                      side.from = row[2].to /\ side.to = row[1].to}
        rank == [row \in scorer_rows |-> minute_rank(row[1].props.minute)]
        goal(row) == [player |-> node(row[1].from).name,
                      minute |-> row[1].props.minute,
                      type |-> row[1].props.goal_type,
                      team |-> node(row[2].to).name]
    IN IF no_rows(result)
       THEN {[tool |-> "get_match_details", status |-> "not_found"]}
       ELSE {[tool |-> "get_match_details", status |-> "ok",
              home_team |-> node(x[1][1][1].from).name,
              away_team |-> node(x[1][1][2].from).name,
              home_score |-> node(x[1][2].from).home_score,
              away_score |-> node(x[1][2].from).away_score,
              date |-> node(x[1][2].from).date,
              attendance |-> node(x[1][2].from).attendance,
              competition |-> node(x[1][2].to).name,
              season |-> node(x[1][2].to).season,
              goals |-> [i \in 1..Len(x[2]) |-> goal(x[2][i])]]
             : x \in result \X OrderByDesc(rank)}

get_match_details(match_id) ==
    /\ outcome' \in q_get_match_details(G, match_id)
    /\ UNCHANGED <<nodes, rels, team_cache, calls>>

-----------------------------------------------------------------------------
(* Match details: a scorer under contract with both sides of the match     *)
(* and a scorer without a contract (SpecDetails).                          *)

DetailsMatchIds == {Id("M001"), Id("M999")}

NextDetails ==
    \/ \E player \in {P001, P004} : load_player(player)
    \/ \E team \in {T001, T002} : load_team(team)
    \/ load_competition(C001)
    \/ load_match(M001)
    \/ \E contract \in {K1, K3} : load_player_contract(contract)
    \/ \E goal \in {G1, G4} : load_goal(goal)
    \/ \E match_id \in DetailsMatchIds : get_match_details(match_id)
    \/ clear_database

SpecDetails == Init /\ [][NextDetails]_vars

(* The SCORED_IN relationships into a match.                               *)
ScoredInto(match_id) ==
    {r \in rels : r.type = "SCORED_IN" /\ r.to.key = match_id}

(* C30: the goals list of get_match_details holds every SCORED_IN edge     *)
(* into the match exactly once, whatever the contracts of the scorer.      *)
C30_EveryGoalListedOnce ==
    \A match_id \in DetailsMatchIds :
        \A result \in q_get_match_details(G, match_id) :
            result.status = "ok" =>
                /\ Len(result.goals) = Cardinality(ScoredInto(match_id))
                /\ {<<result.goals[i].player, result.goals[i].minute>> :
                      i \in DOMAIN result.goals}
                     = {<<NodeAt(nodes, r.from).props.name, r.props.minute>> :
                          r \in ScoredInto(match_id)}

-----------------------------------------------------------------------------
(* Reset: clear_database between loads and reads of every kind (SpecReset). *)

ResetReads ==
    \/ \E player_id \in {Id("P001")} : get_player_career(player_id)
    \/ \E team_id \in {Id("T001")} : get_team_roster(team_id, Date(2023, 6, 1))
    \/ \E team_id \in {Id("T001")} : get_team_stats(team_id, None)
    \/ get_head_to_head(Id("T001"), Id("T002"))
    \/ get_competition_top_scorers(Id("C001"), "2023", 1)
    \/ find_common_teammates(Id("P001"), Id("P004"))
    \/ get_match_details(Id("M001"))
    \/ find_players_who_played_for_both_teams(Id("T001"), Id("T002"))
    \/ search_player("", None, None)
    \/ search_matches(None, None, None, None)

NextReset ==
    \/ \E player \in {P001, P004} : load_player(player)
    \/ \E team \in {T001, T002} : load_team(team)
    \/ load_competition(C001)
    \/ load_match(M001)
    \/ \E contract \in {K1, K4} : load_player_contract(contract)
    \/ load_goal(G1)
    \/ _load_teams
    \/ ResetReads
    \/ clear_database

SpecReset == Init /\ [][NextReset]_vars

Fresh == [nodes |-> {}, rels |-> {}]

(* What each upsert of SpecReset makes of a store that was never used.     *)
FreshUpserts ==
    {q_load_player(Fresh, player) : player \in {P001, P004}}
    \cup {q_load_team(Fresh, team) : team \in {T001, T002}}
    \cup {q_load_competition(Fresh, C001), q_load_match(Fresh, M001),
          q_load_goal(Fresh, G1)}
    \cup {q_load_player_contract(Fresh, contract) : contract \in {K1, K4}}
    \cup {load_teams_loop([cache |-> team_cache, g |-> Fresh], 1).g}

-----------------------------------------------------------------------------
(* Scores as the loaders store them: a Match record and a CSV row with a   *)
(* negative score next to the ordinary ones (SpecScores).                  *)

M003_negative == Match(Id("M003"), Date(2023, 5, 1), Id("T001"), Id("T002"), 0 - 1, 0, Id("C001"), None)
BR_row_negative == [home_team |-> "Flamengo-RJ", away_team |-> "Fluminense-RJ",
                    datetime |-> <<2013, 5, 20>>, season |-> Some(2013),
                    round |-> Some(1), home_goal |-> Some(1),
                    away_goal |-> Some(0 - 2)]
ScoreMatches == {M001, M002, M003_negative}
ScoreRows == {BR_row, BR_row_2011, BR_row_negative}

NextScores ==
    \/ \E team \in {T001, T002} : load_team(team)
    \/ load_competition(C001)
    \/ \E match \in ScoreMatches : load_match(match)
    \/ _load_teams
    \/ _load_competitions
    \/ \E csv \in CsvFiles(ScoreRows, MaxCsvRows) : _load_brasileirao_matches(csv)
    \/ clear_database

SpecScores == Init /\ [][NextScores]_vars

(* C28: every Match node carries a home_score and an away_score that are   *)
(* non-negative integers.                                                  *)
C28_ScoresNonNegative ==
    \A m \in MatchNodesOf(nodes) :
        /\ m.props.home_score # None
        /\ m.props.away_score # None
        /\ Val(m.props.home_score) \in Nat
        /\ Val(m.props.away_score) \in Nat

-----------------------------------------------------------------------------
(* get_team_stats query by query.  Each db.execute_query opens its own     *)
(* session and runs in its own transaction, so another client of the       *)
(* database can write between two of them.  The call remembers the graph   *)
(* it began on, for the properties only.                                   *)

(* team_query; "if not team_result" ends the call.                         *)
get_team_stats_team_query(team_id, season) ==
    LET team_result == MatchNodes(nodes, "Team", team_id)
    IN /\ calls.reader = Idle
       /\ IF no_rows(team_result)
          THEN /\ outcome' = [tool |-> "get_team_stats", status |-> "not_found"]
               /\ UNCHANGED calls
          ELSE /\ \E t \in team_result :
                     calls' = [calls EXCEPT !.reader =
                                 [op |-> "get_team_stats", next |-> "home_query",
                                  team_id |-> team_id, season |-> season,
                                  team_name |-> t.props.name, began |-> G]]
               /\ UNCHANGED outcome
       /\ UNCHANGED <<nodes, rels, team_cache>>

get_team_stats_home_query ==
    /\ calls.reader.op = "get_team_stats"
    /\ calls.reader.next = "home_query"
    /\ calls' = [calls EXCEPT !.reader =
          [op |-> "get_team_stats", next |-> "away_query",
           team_id |-> calls.reader.team_id, season |-> calls.reader.season,
           team_name |-> calls.reader.team_name, began |-> calls.reader.began,
           home |-> side_stats(G, side_rows(G, calls.reader.team_id,
                                            calls.reader.season, "PLAYED_HOME"),
                               "home_score", "away_score")]]
    /\ UNCHANGED <<nodes, rels, team_cache, outcome>>

(* away_query, and the totals that are returned.                           *)
get_team_stats_away_query ==
    /\ calls.reader.op = "get_team_stats"
    /\ calls.reader.next = "away_query"
    /\ LET home == calls.reader.home
           away == side_stats(G, side_rows(G, calls.reader.team_id,
                                           calls.reader.season, "PLAYED_AWAY"),
                              "away_score", "home_score")
       IN outcome' = [tool |-> "get_team_stats", status |-> "ok",
                      team_name |-> calls.reader.team_name,
                      total_matches |-> home.matches + away.matches,
                      total_wins |-> home.wins + away.wins,
                      total_draws |-> home.draws + away.draws,
                      total_losses |-> home.losses + away.losses,
                      goals_for |-> home.goals_for + away.goals_for,
                      goals_against |-> home.goals_against + away.goals_against]
    /\ calls' = [calls EXCEPT !.reader = Idle]
    /\ UNCHANGED <<nodes, rels, team_cache>>

-----------------------------------------------------------------------------
(* A reset by another client while get_team_stats is between its queries   *)
(* (SpecIsolation).  Loads happen between the calls, so that during a call *)
(* the graph is the one it began on or the emptied one.                    *)

NextIsolation ==
    \/ \E team \in {T001, T002} : calls.reader = Idle /\ load_team(team)
    \/ calls.reader = Idle /\ load_competition(C001)
    \/ \E match \in {M001, M002} : calls.reader = Idle /\ load_match(match)
    \/ \E team_id \in TeamIds, season \in OptSeasonArgs :
          get_team_stats_team_query(team_id, season)
    \/ get_team_stats_home_query
    \/ get_team_stats_away_query
    \/ clear_database

SpecIsolation == Init /\ [][NextIsolation]_vars

(* C25: what get_team_stats returns when a clear_database may run during   *)
(* the call is what it returns on the graph the call began on or on the    *)
(* emptied graph.                                                          *)
C25_ReadsIsolatedFromReset ==
    [][(calls.reader.op = "get_team_stats" /\ calls'.reader = Idle) =>
          outcome' \in q_get_team_stats(calls.reader.began, calls.reader.team_id,
                                        calls.reader.season)
                       \cup q_get_team_stats(Fresh, calls.reader.team_id,
                                             calls.reader.season)]_vars

-----------------------------------------------------------------------------
(* Bulk loads write by write.  load_sample_data calls the loaders in the   *)
(* order teams, stadiums, competitions, players, coaches, matches,         *)
(* contracts, goals, cards, one execute_write per record; the records      *)
(* here are a part of get_sample_data, with two goals of one player in     *)
(* one match as the sample data has them for M006 and M014.                *)

SampleData ==
    << [kind |-> "team", rec |-> T001], [kind |-> "team", rec |-> T002],
       [kind |-> "stadium", rec |-> S001],
       [kind |-> "competition", rec |-> C001],
       [kind |-> "player", rec |-> P001], [kind |-> "player", rec |-> P004],
       [kind |-> "coach", rec |-> CO001],
       [kind |-> "match", rec |-> M001],
       [kind |-> "contract", rec |-> K1], [kind |-> "contract", rec |-> K4],
       [kind |-> "goal", rec |-> G1], [kind |-> "goal", rec |-> G2],
       [kind |-> "card", rec |-> Y1] >>

sample_write(g, w) ==
    CASE w.kind = "team" -> q_load_team(g, w.rec)
      [] w.kind = "stadium" -> q_load_stadium(g, w.rec)
      [] w.kind = "competition" -> q_load_competition(g, w.rec)
      [] w.kind = "player" -> q_load_player(g, w.rec)
      [] w.kind = "coach" -> q_load_coach(g, w.rec)
      [] w.kind = "match" -> q_load_match(g, w.rec)
      [] w.kind = "contract" -> q_load_player_contract(g, w.rec)
      [] w.kind = "goal" -> q_load_goal(g, w.rec)
      [] w.kind = "card" -> q_load_card(g, w.rec)

(* The next write of a load_sample_data call.                              *)
load_sample_data ==
    /\ calls.sample < Len(SampleData)
    /\ LET g == sample_write(G, SampleData[calls.sample + 1])
       IN nodes' = g.nodes /\ rels' = g.rels
    /\ outcome' = [tool |-> "loader", status |-> "returned"]
    /\ calls' = [calls EXCEPT !.sample = calls.sample + 1]
    /\ UNCHANGED team_cache

(* KaggleDataLoader(db).load_all(): the five loaders in their order, each  *)
(* on the CSV file it finds.                                               *)
load_all(brasileirao, br_football, players) ==
    /\ calls.kaggle < 5
    /\ LET cache == IF calls.kaggle = 0 THEN {} ELSE team_cache
           teams == load_teams_loop([cache |-> cache, g |-> G], 1)
           g == CASE calls.kaggle = 0 -> teams.g
                  [] calls.kaggle = 1 -> load_competitions_loop(G, 1, FirstSeason)
                  [] calls.kaggle = 2 -> brasileirao_loop(G, cache, brasileirao, 1)
                  [] calls.kaggle = 3 -> br_football_loop(G, cache, br_football, 1)
                  [] calls.kaggle = 4 ->
                        players_loop([g |-> G, seen_players |-> {}], cache,
                                     players, 1).g
       IN /\ nodes' = g.nodes
          /\ rels' = g.rels
          /\ team_cache' = IF calls.kaggle = 0 THEN teams.cache ELSE team_cache
    /\ outcome' = [tool |-> "loader", status |-> "returned"]
    /\ calls' = [calls EXCEPT !.kaggle = calls.kaggle + 1]

-----------------------------------------------------------------------------
(* A reader of match M001 while the two bulk loads run (SpecBulk).         *)

BulkBrasileiraoRows == {BR_row, BR_row_2011}

NextBulk ==
    \/ load_sample_data
    \/ \E brasileirao \in CsvFiles(BulkBrasileiraoRows, MaxCsvRows),
          br_football \in CsvFiles({BRF_row}, MaxCsvRows),
          players \in CsvFiles({FIFA_row}, MaxCsvRows) :
          load_all(brasileirao, br_football, players)
    \/ get_match_details(Id("M001"))

SpecBulk == Init /\ [][NextBulk]_vars

RECURSIVE sample_loop(_, _)
sample_loop(g, i) ==
    IF i > Len(SampleData) THEN g
    ELSE sample_loop(sample_write(g, SampleData[i]), i + 1)

(* C26: what a reader gets while load_sample_data and load_all run is what *)
(* it gets before the sample data or after all of it.                      *)
C26_NoPartialBatchObserved ==
    outcome.tool = "get_match_details" =>
        outcome \in q_get_match_details(Fresh, Id("M001"))
                    \cup q_get_match_details(sample_loop(Fresh, 1), Id("M001"))

(* An edge of the sample data is in the graph with the data of its record. *)
HasEdgeOf(g, w) ==
    LET edge(type, from, to) ==
            {r \in g.rels : r.type = type /\ r.from.key = from /\ r.to.key = to}
    IN CASE w.kind = "match" ->
               /\ edge("PLAYED_HOME", w.rec.home_team_id, w.rec.match_id) # {}
               /\ edge("PLAYED_AWAY", w.rec.away_team_id, w.rec.match_id) # {}
               /\ edge("PART_OF", w.rec.match_id, w.rec.competition_id) # {}
         [] w.kind = "contract" ->
               edge("PLAYS_FOR", w.rec.player_id, w.rec.team_id) # {}
         [] w.kind = "goal" ->
               \E r \in edge("SCORED_IN", w.rec.player_id, w.rec.match_id) :
                   r.props.minute = Some(w.rec.minute)
         [] w.kind = "card" ->
               edge(IF w.rec.card_type = "yellow" THEN "YELLOW_CARD_IN"
                    ELSE "RED_CARD_IN", w.rec.player_id, w.rec.match_id) # {}
         [] OTHER -> TRUE

(* A match of the Kaggle files has its two teams and its competition.      *)
HasFixture(g, m) ==
    /\ RelsInto(g.rels, "PLAYED_HOME", m) # {}
    /\ RelsInto(g.rels, "PLAYED_AWAY", m) # {}
    /\ RelsOutOf(g.rels, "PART_OF", m) # {}

(* C29: when load_sample_data has issued its last write, every match,      *)
(* contract, goal and card of the data has its edges in the graph, and     *)
(* after each step of load_all every match it created has its team edges   *)
(* and its PART_OF edge.                                                   *)
C29_BulkLoadsDropNoEdge ==
    [][/\ (calls.sample # calls'.sample /\ calls'.sample = Len(SampleData)) =>
            \A i \in 1..Len(SampleData) :
                HasEdgeOf([nodes |-> nodes', rels |-> rels'], SampleData[i])
       /\ calls.kaggle # calls'.kaggle =>
            \A m \in MatchNodesOf(nodes') \ MatchNodesOf(nodes) :
                HasFixture([nodes |-> nodes', rels |-> rels'], m)]_vars

====
